---- MODULE Spec2Model ----
(***************************************************************************)
(* A model of jetstream-pg-writer: the write processor's idempotent        *)
(* write protocol (packages/write-processor/src/handlers/base.ts) and the  *)
(* write gateway's admission control (WriteClient.write in                 *)
(* packages/write-gateway/src/main.ts).                                    *)
(*                                                                         *)
(* SpecWP runs the processor: handler loops of two replicas consuming the  *)
(* WRITES stream against one relational store.  Every await of the source  *)
(* is one action; the synchronous code that follows an await (catch        *)
(* blocks, finally, ack/nak) belongs to the action of that await.          *)
(* SpecWG runs the gateway's WriteClient.                                  *)
(* SpecRetry runs the processor from a message already nak'd.              *)
(* SpecRoute runs the gateway's routes, their publish and their client.    *)
(* SpecCache runs the clients of the tracked cache, command by command.    *)
(* SpecCDC runs the read API's CDC consumer, SpecCDCFair with fairness.    *)
(* SpecShutdown runs the processes' shutdown handlers.                     *)
(* SpecWGFair is SpecWG with the event loop's fairness.                    *)
(* SpecCodec runs one Write Request through its wire format.               *)
(* SpecTtl runs setTrackedCache under the keystore's clock.                *)
(* SpecReadThrough runs getCached against commits and invalidations.       *)
(***************************************************************************)
EXTENDS Naturals, Integers, Sequences, FiniteSets, TLC

VARIABLES
    \* ---- relational store (committed state)
    write_operations,   \* the idempotency ledger: operation_id -> row | NoRow
    domainRows,         \* committed rows of the domain tables users / orders
    tx,                 \* per handler: the open transaction's uncommitted writes
    \* ---- durable queue
    msgs,               \* the WRITES stream with the consumers' delivery state
    dlq,                \* the WRITES_DLQ stream
    \* ---- write processor
    handler,            \* per handler loop: position in handleMessage/processWrite
    faults,             \* number of infrastructure errors injected so far
    \* ---- cache keystore
    cache,              \* namespace -> live data keys
    tracked,            \* namespace -> members of the tracking set cache:keys:<namespace>
    redisClient,        \* per invalidating client: position in invalidateNamespace
    \* ---- HTTP clients of the gateway's routes and the stream's dedup table
    clients,            \* per client: its request, the reply, what it does next
    dupWindow,          \* msgID -> position of the message stored under it, 0 if none
    \* ---- CDC consumer of the read API
    cdc,                \* the DebeziumStream with the cache-invalidator consumer's delivery state
    cdcConsumer,        \* position of the consumeCdcEvents loop
    \* ---- process lifecycle
    procs,              \* per process: position in shutdown(), open connections, work in flight
    \* ---- wire format of a Write Request
    codec,              \* one request on its way: the value, its bytes, the value decoded
    \* ---- cache keystore with its clock (TTLs of one namespace)
    ttlClock,           \* the keystore's time, in seconds
    keyExpiry,          \* data key -> the time it expires at, NoKeyYet if it does not exist
    setExpiry,          \* the tracking set's: NoKeyYet, NoTtl or the time it expires at
    setMembers,         \* members of the tracking set
    ttlPut,             \* per call of setTrackedCache: its position
    \* ---- cache-aside read of the read API (values of one namespace)
    storeVersion,       \* number of changes committed to the table
    entries,            \* data key -> the version of the data it holds, NoData if none
    entryKeys,          \* members of the tracking set
    readers,            \* per call of getCached: its position, what it fetched
    invalidators,       \* per invalidating process: position in invalidateNamespace
    \* ---- write gateway (WriteClient fields)
    inFlight,
    consecutiveFailures,
    circuitOpen,
    circuitOpenedAt,
    halfOpenInProgress,
    now,                \* Date.now()
    calls,              \* per concurrent HTTP request: position in write()
    failuresInARow      \* history: publish failures since the last publish success

vars == << write_operations, domainRows, tx, msgs, dlq, handler, faults, cache,
           tracked, redisClient, clients, dupWindow, cdc,
           cdcConsumer, procs, codec, ttlClock, keyExpiry, setExpiry, setMembers,
           ttlPut, storeVersion, entries, entryKeys, readers, invalidators, inFlight, consecutiveFailures, circuitOpen, circuitOpenedAt,
           halfOpenInProgress, now, calls, failuresInARow >>

wpVars == << write_operations, domainRows, tx, msgs, dlq, handler, faults, cache,
            tracked >>
ckVars == << redisClient >>
rtVars == << clients, dupWindow >>
cdcVars == << cdc, cdcConsumer >>
shVars == << procs >>
cdVars == << codec >>
ttlVars == << ttlClock, keyExpiry, setExpiry, setMembers, ttlPut >>
rdVars == << storeVersion, entries, entryKeys, readers, invalidators >>
ctVars == << cdVars, ttlVars, rdVars >>
xtVars == << rtVars, cdcVars, shVars, ctVars >>
wgVars == << inFlight, consecutiveFailures, circuitOpen, circuitOpenedAt,
             halfOpenInProgress, now, calls, failuresInARow >>

-----------------------------------------------------------------------------
(* Bounds of the model *)

\* messages ever published to the WRITES stream
MaxMsgs == 2
\* infrastructure errors (connection loss, cancelled statement, ...) injected
MaxFaults == 2
\* the clock stops here
MaxTime == 5
\* concurrent HTTP requests beyond maxInFlight
ExtraCalls == 1
\* times a client submits its request (the first time and the retries)
MaxSubmits == 2
\* messages or requests a process works on at a time
MaxBusy == 2
\* change events ever written to the CDC stream
MaxCdcEvents == 2
\* deliveries of one CDC event on which a command of the cache store fails
MaxCdcFailures == 1
\* seconds the keystore's clock runs for
MaxClock == 7
\* changes ever committed to the table whose reads are cached
MaxChanges == 2

-----------------------------------------------------------------------------
(* Program constants *)

\* base.ts: redeliveryCount 2 is the final attempt (0, 1, 2)
MAX_REDELIVERY_COUNT == 2
\* write-processor main.ts: consumers are created with max_deliver: 3
max_deliver == 3
\* cache.ts: the tracking set lives this many times as long as an entry
TRACKING_SET_TTL_MULTIPLIER == 2
\* read API: the TTL every call of getCached gives its entry (30 in the
\* source; the model counts in units of 15 seconds)
CACHE_TTL_SECONDS == 2

PG_UNIQUE_VIOLATION == "23505"
PG_RETRYABLE_CODES ==
    { "08000", "08003", "08006", "40001", "40P01", "53300", "57P01", "57P02", "57P03" }

\* DEFAULT_CONFIG of the gateway (maxInFlight 500, circuitFailureThreshold 5,
\* circuitResetMs 10000), scaled down: the constructor takes any override.
maxInFlight == 2
circuitFailureThreshold == 2
circuitResetMs == 2

-----------------------------------------------------------------------------
(* Value spaces *)

\* Handlers meet only in rows keyed by operation_id, so the deliveries of one
\* key are followed: every message of the stream carries it.
Ops == { "K1" }
Tables == { "users", "orders" }
Workers == { "w1", "w2" }
CacheKeys == { "page1", "page2" }

\* the endpoint the key is submitted to: POST /users
TableOf(op) == "users"

\* replicas are interchangeable: an idle replica with the lowest number takes
\* the next message
ReplicaNo(w) == IF w = "w1" THEN 1 ELSE 2

NULL == "null"
NoErr == "ok"
NoEntity == << 0, 0 >>
NoRow == [ status |-> "none", entity_table |-> "", entity_id |-> NoEntity,
           error |-> NULL, completed_at |-> NULL ]

\* Errors a call can raise besides the unique violation: 23503 is a foreign-key
\* violation, 08006 connection_failure, 57014 query_canceled; ECONNREFUSED is
\* the code of the socket error when the store refuses the connection.
ConstraintErrors == { "23503" }
InfraErrors == { "08006", "57014" }
ConnectErrors == { "08006", "ECONNREFUSED" }
\* The error the driver raises when the connection is lost under a call: an
\* Error object with a message and no `code` property.
NoCodeError == "Connection terminated unexpectedly"

-----------------------------------------------------------------------------
(* Write processor: helpers *)

\* isRetryable as a blocklist: every error is retried except the constraint
\* violations
isRetryableBlocklist(error) == error \notin { "23503", PG_UNIQUE_VIOLATION }

\* BaseHandler.isRetryable: the safelist over the error's code
isRetryable(error) == error # NoCodeError /\ error \in PG_RETRYABLE_CODES

\* randomUUID(): a value no other delivery gets
randomUUID(m, redeliveryCount) == << m, redeliveryCount >>

IdleHandler == [ pc |-> "idle", m |-> 0, operationId |-> "", table |-> "",
                 entityId |-> NoEntity, redeliveryCount |-> 0, err |-> NoErr,
                 sawRow |-> FALSE ]

NoTx == [ open |-> FALSE, il |-> NoRow, dom |-> {} ]

\* msg.ack() and msg.nak(1000) of the message a handler holds
Acked(m) == [ msgs EXCEPT ![m].acked = TRUE ]
Naked(m) == [ msgs EXCEPT ![m].avail = TRUE ]
\* history: one more attempt of the message ended in handleMessage's catch
\* with an error that isRetryable accepts
Retried(ms, m) == [ ms EXCEPT ![m].retried = @ + 1 ]

\* one more infrastructure error is injected / the call goes through
Raise == faults < MaxFaults /\ faults' = faults + 1
NoRaise == faults' = faults

\* Another session holds an uncommitted ledger row of this operation_id: the
\* unique index makes an INSERT of the same key wait for that transaction.
Blocked(w, op) ==
    \E v \in Workers \ {w} :
        /\ tx[v].il.status # "none"
        /\ handler[v].operationId = op

\* Catch as it would be if line 68 compared with > instead of >=
CatchLate(w, error) ==
    IF isRetryable(error)
    THEN IF handler[w].redeliveryCount > MAX_REDELIVERY_COUNT
         THEN /\ handler' = [ handler EXCEPT ![w].pc = "publishToDlq", ![w].err = error ]
              /\ msgs' = Retried(msgs, handler[w].m)
         ELSE /\ handler' = [ handler EXCEPT ![w] = IdleHandler ]
              /\ msgs' = Retried(Naked(handler[w].m), handler[w].m)
    ELSE /\ handler' = [ handler EXCEPT ![w] = IdleHandler ]
         /\ msgs' = Acked(handler[w].m)

\* handleMessage's catch block (lines 66-87)
Catch(w, error) ==
    IF isRetryable(error)
    THEN IF handler[w].redeliveryCount >= MAX_REDELIVERY_COUNT
         THEN /\ handler' = [ handler EXCEPT ![w].pc = "publishToDlq", ![w].err = error ]
              /\ msgs' = Retried(msgs, handler[w].m)
         ELSE /\ handler' = [ handler EXCEPT ![w] = IdleHandler ]
              /\ msgs' = Retried(Naked(handler[w].m), handler[w].m)
    ELSE /\ handler' = [ handler EXCEPT ![w] = IdleHandler ]
         /\ msgs' = Acked(handler[w].m)

\* processWrite's outer catch block up to its first await (line 134)
OuterCatch(w, error) ==
    /\ handler' = [ handler EXCEPT ![w].pc = "rollback", ![w].err = error ]
    /\ msgs' = msgs

-----------------------------------------------------------------------------
(* Durable queue: the WRITES stream and its consumers *)

\* The gateway's publish lands in the stream (a resubmission of a key after the
\* dedup window is a second message with the same operation_id).  A message is
\* added once the earlier ones have been delivered: one that waits undelivered
\* behind them is no different from one published later.
PublishWrite(op, t) ==
    /\ Len(msgs) < MaxMsgs
    /\ \A i \in 1..Len(msgs) : msgs[i].delivered > 0
    /\ msgs' = Append(msgs, [ operationId |-> op, table |-> t, payload |-> "json",
                              delivered |-> 0, avail |-> TRUE, acked |-> FALSE,
                              retried |-> 0 ])
    /\ UNCHANGED << write_operations, domainRows, tx, dlq, handler, faults, cache, tracked >>
    /\ UNCHANGED << wgVars, ckVars, xtVars >>

\* A message whose bytes are not a JSON WriteRequest
PublishUndecodable(t) ==
    /\ Len(msgs) < MaxMsgs
    /\ \A i \in 1..Len(msgs) : msgs[i].delivered > 0
    /\ msgs' = Append(msgs, [ operationId |-> "", table |-> t, payload |-> "garbage",
                              delivered |-> 0, avail |-> TRUE, acked |-> FALSE,
                              retried |-> 0 ])
    /\ UNCHANGED << write_operations, domainRows, tx, dlq, handler, faults, cache, tracked >>
    /\ UNCHANGED << wgVars, ckVars, xtVars >>

\* ack_wait passes without ack or nak: the message is due for redelivery
AckWaitExpired(m) ==
    /\ m \in 1..Len(msgs)
    /\ ~msgs[m].acked /\ ~msgs[m].avail
    /\ msgs[m].delivered >= 1 /\ msgs[m].delivered < max_deliver
    /\ msgs' = [ msgs EXCEPT ![m].avail = TRUE ]
    /\ UNCHANGED << write_operations, domainRows, tx, dlq, handler, faults, cache, tracked >>
    /\ UNCHANGED << wgVars, ckVars, xtVars >>

-----------------------------------------------------------------------------
(* Write processor: BaseHandler *)

\* start's loop hands the next message to handleMessage, which runs to its
\* first await: JSON.parse (line 59), randomUUID (92), db.connect() (93).
Deliver(w, m) ==
    /\ handler[w].pc = "idle"
    /\ \A v \in Workers : handler[v].pc = "idle" => ReplicaNo(w) <= ReplicaNo(v)
    /\ m \in 1..Len(msgs)
    /\ ~msgs[m].acked /\ msgs[m].avail
    /\ msgs[m].delivered < max_deliver
    /\ msgs' = [ msgs EXCEPT ![m].avail = FALSE, ![m].delivered = @ + 1 ]
    /\ IF msgs[m].payload = "json"
       THEN handler' = [ handler EXCEPT ![w] =
                [ pc |-> "connect", m |-> m,
                  operationId |-> msgs[m].operationId,
                  table |-> msgs[m].table,
                  entityId |-> randomUUID(m, msgs[m].delivered),
                  redeliveryCount |-> msgs[m].delivered,
                  err |-> NoErr,
                  sawRow |-> write_operations[msgs[m].operationId].status # "none" ] ]
       ELSE \* JSON.parse throws outside the try: the consume loop ends
            handler' = [ handler EXCEPT ![w] = [ IdleHandler EXCEPT !.pc = "crashed", !.m = m ] ]
    /\ UNCHANGED << write_operations, domainRows, tx, dlq, faults, cache, tracked >>
    /\ UNCHANGED << wgVars, ckVars, xtVars >>

\* line 93: const client = await this.db.connect()   (outside the try)
Connect(w) ==
    /\ handler[w].pc = "connect"
    /\ \/ /\ NoRaise
          /\ handler' = [ handler EXCEPT ![w].pc = "begin" ]
          /\ msgs' = msgs
       \/ \E e \in ConnectErrors : Raise /\ Catch(w, e)
    /\ UNCHANGED << write_operations, domainRows, tx, dlq, cache, tracked >>
    /\ UNCHANGED << wgVars, ckVars, xtVars >>

\* line 96: BEGIN
Begin(w) ==
    /\ handler[w].pc = "begin"
    /\ \/ /\ NoRaise
          /\ tx' = [ tx EXCEPT ![w] = [ NoTx EXCEPT !.open = TRUE ] ]
          /\ handler' = [ handler EXCEPT ![w].pc = "insertPending" ]
          /\ msgs' = msgs
       \/ \E e \in InfraErrors : Raise /\ OuterCatch(w, e) /\ tx' = tx
    /\ UNCHANGED << write_operations, domainRows, dlq, cache, tracked >>
    /\ UNCHANGED << wgVars, ckVars, xtVars >>

\* PendingInsert as it would be were operation_id not unique in the ledger: the
\* insert neither waits for a concurrent one nor raises 23505
PendingInsertNotUnique(w) ==
    \/ /\ NoRaise
       /\ tx' = [ tx EXCEPT ![w].il =
                     [ status |-> "pending", entity_table |-> handler[w].table,
                       entity_id |-> handler[w].entityId,
                       error |-> NULL, completed_at |-> NULL ] ]
       /\ handler' = [ handler EXCEPT ![w].pc = "insertDomain" ]
    \/ \E e \in InfraErrors :
          /\ Raise
          /\ tx' = tx
          /\ handler' = [ handler EXCEPT ![w].pc = "rollbackDup", ![w].err = e ]

\* lines 99-105: INSERT INTO write_operations (..., 'pending'); an error goes
\* to the inner catch, which awaits ROLLBACK (106)
PendingInsert(w) ==
    /\ ~Blocked(w, handler[w].operationId)
    /\ \/ /\ write_operations[handler[w].operationId].status # "none"
          /\ NoRaise
          /\ tx' = tx
          /\ handler' = [ handler EXCEPT ![w].pc = "rollbackDup", ![w].err = PG_UNIQUE_VIOLATION ]
       \/ /\ write_operations[handler[w].operationId].status = "none"
          /\ NoRaise
          /\ tx' = [ tx EXCEPT ![w].il =
                        [ status |-> "pending", entity_table |-> handler[w].table,
                          entity_id |-> handler[w].entityId,
                          error |-> NULL, completed_at |-> NULL ] ]
          /\ handler' = [ handler EXCEPT ![w].pc = "insertDomain" ]
       \/ \E e \in InfraErrors :
             /\ Raise
             /\ tx' = tx
             /\ handler' = [ handler EXCEPT ![w].pc = "rollbackDup", ![w].err = e ]

InsertPending(w) ==
    /\ handler[w].pc = "insertPending"
    /\ PendingInsert(w)
    /\ UNCHANGED << write_operations, domainRows, msgs, dlq, cache, tracked >>
    /\ UNCHANGED << wgVars, ckVars, xtVars >>

\* line 106: ROLLBACK in the inner catch, then `return` on a unique violation
\* (processWrite returns, the client is released, handleMessage acks at line 65)
\* or `throw error`, which the outer catch takes.  A ROLLBACK that fails means
\* the session is gone, so the server has dropped its transaction; the error
\* it throws inside the inner catch reaches the outer catch in place of the first.
RollbackDup(w) ==
    /\ handler[w].pc = "rollbackDup"
    /\ tx' = [ tx EXCEPT ![w] = NoTx ]
    /\ \/ /\ NoRaise
          /\ IF handler[w].err = PG_UNIQUE_VIOLATION
             THEN /\ handler' = [ handler EXCEPT ![w] = IdleHandler ]
                  /\ msgs' = Acked(handler[w].m)
             ELSE OuterCatch(w, handler[w].err)
       \/ \E e \in InfraErrors : Raise /\ OuterCatch(w, e)
    /\ UNCHANGED << write_operations, domainRows, dlq, cache, tracked >>
    /\ UNCHANGED << wgVars, ckVars, xtVars >>

\* line 116: this.insert(client, entityId, data), the INSERT into users / orders
InsertDomain(w) ==
    /\ handler[w].pc = "insertDomain"
    /\ \/ /\ NoRaise
          /\ tx' = [ tx EXCEPT ![w].dom = @ \cup
                        { [ table |-> handler[w].table, id |-> handler[w].entityId,
                            op |-> handler[w].operationId ] } ]
          /\ handler' = [ handler EXCEPT ![w].pc = "markCompleted" ]
          /\ msgs' = msgs
       \/ \E e \in ConstraintErrors : NoRaise /\ OuterCatch(w, e) /\ tx' = tx
       \/ \E e \in InfraErrors : Raise /\ OuterCatch(w, e) /\ tx' = tx
    /\ UNCHANGED << write_operations, domainRows, dlq, cache, tracked >>
    /\ UNCHANGED << wgVars, ckVars, xtVars >>

\* MarkCompleted as it would be if the UPDATE of lines 119-122 matched no row
MarkCompletedNoUpdate(w) ==
    /\ handler[w].pc = "markCompleted"
    /\ \/ /\ NoRaise
          /\ tx' = tx
          /\ handler' = [ handler EXCEPT ![w].pc = "commit" ]
          /\ msgs' = msgs
       \/ \E e \in InfraErrors : Raise /\ OuterCatch(w, e) /\ tx' = tx
    /\ UNCHANGED << write_operations, domainRows, dlq, cache, tracked >>
    /\ UNCHANGED << wgVars, ckVars, xtVars >>

\* lines 119-122: UPDATE write_operations SET status = 'completed', completed_at = NOW()
MarkCompleted(w) ==
    /\ handler[w].pc = "markCompleted"
    /\ \/ /\ NoRaise
          /\ tx' = [ tx EXCEPT ![w].il.status = "completed", ![w].il.completed_at = "set" ]
          /\ handler' = [ handler EXCEPT ![w].pc = "commit" ]
          /\ msgs' = msgs
       \/ \E e \in InfraErrors : Raise /\ OuterCatch(w, e) /\ tx' = tx
    /\ UNCHANGED << write_operations, domainRows, dlq, cache, tracked >>
    /\ UNCHANGED << wgVars, ckVars, xtVars >>

\* The transaction's writes become the committed state
Committed(w) ==
    /\ write_operations' = [ write_operations EXCEPT ![handler[w].operationId] = tx[w].il ]
    /\ domainRows' = domainRows \cup tx[w].dom
    /\ tx' = [ tx EXCEPT ![w] = NoTx ]

\* line 124: COMMIT.  An error response of the server means the transaction
\* was not committed; when the connection is lost under the call the server
\* may or may not have committed it.
Commit(w) ==
    /\ handler[w].pc = "commit"
    /\ \/ /\ NoRaise
          /\ Committed(w)
          /\ handler' = [ handler EXCEPT ![w].pc = "invalidateCache" ]
          /\ msgs' = msgs
       \/ \E e \in InfraErrors :
             /\ Raise
             /\ UNCHANGED << write_operations, domainRows, tx >>
             /\ OuterCatch(w, e)
       \/ /\ Raise
          /\ \/ Committed(w)
             \/ UNCHANGED << write_operations, domainRows, tx >>
          /\ OuterCatch(w, NoCodeError)
    /\ UNCHANGED << dlq, cache, tracked >>
    /\ UNCHANGED << wgVars, ckVars, xtVars >>

\* redis.smembers(setKey)
smembers(namespace) == tracked[namespace]

\* redis.del(...keys, setKey): the listed data keys and the tracking set
del(keys, namespace) ==
    /\ cache' = [ cache EXCEPT ![namespace] = @ \ keys ]
    /\ tracked' = [ tracked EXCEPT ![namespace] = {} ]

\* shared cache.ts invalidateNamespace, run with no other command of the
\* keystore between its two: nothing is deleted when the tracking set is
\* empty, else the members and the set are
invalidateNamespace(namespace) ==
    LET keys == smembers(namespace)
    IN  IF keys = {} THEN UNCHANGED << cache, tracked >> ELSE del(keys, namespace)

\* InvalidateCache as it would be without the try/catch of lines 128-132:
\* the error of the cache store reaches handleMessage's catch
InvalidateCacheFatal(w) ==
    /\ handler[w].pc = "invalidateCache"
    /\ \/ /\ NoRaise /\ invalidateNamespace(handler[w].table)
          /\ handler' = [ handler EXCEPT ![w] = IdleHandler ]
          /\ msgs' = Acked(handler[w].m)
       \/ /\ Raise /\ UNCHANGED << cache, tracked >>
          /\ Catch(w, "08006")
    /\ UNCHANGED << write_operations, domainRows, tx, dlq >>
    /\ UNCHANGED << wgVars, ckVars, xtVars >>

\* lines 127-132: invalidateCache in its own try/catch, then processWrite
\* returns and handleMessage acks (line 65)
InvalidateCache(w) ==
    /\ handler[w].pc = "invalidateCache"
    /\ \/ NoRaise /\ invalidateNamespace(handler[w].table)
       \/ Raise /\ UNCHANGED << cache, tracked >>
    /\ handler' = [ handler EXCEPT ![w] = IdleHandler ]
    /\ msgs' = Acked(handler[w].m)
    /\ UNCHANGED << write_operations, domainRows, tx, dlq >>
    /\ UNCHANGED << wgVars, ckVars, xtVars >>

\* lines 134-148: ROLLBACK in the outer catch; then a non-retryable error is
\* recorded (next await), a retryable one is rethrown to handleMessage.  A
\* failing ROLLBACK throws out of the catch block: its error replaces the
\* original and recordFailure is not reached: a server error, or the
\* driver's codeless error when the connection is lost under the call.  On a
\* client whose connection was lost before, the ROLLBACK cannot be sent: the
\* driver rejects it, again with an error that has no code.
Rollback(w) ==
    /\ handler[w].pc = "rollback"
    /\ tx' = [ tx EXCEPT ![w] = NoTx ]
    /\ IF handler[w].err = NoCodeError
       THEN NoRaise /\ Catch(w, NoCodeError)
       ELSE \/ /\ NoRaise
               /\ IF ~isRetryable(handler[w].err)
                  THEN /\ handler' = [ handler EXCEPT ![w].pc = "recordFailure" ]
                       /\ msgs' = msgs
                  ELSE Catch(w, handler[w].err)
            \/ \E e \in InfraErrors \cup { NoCodeError } : Raise /\ Catch(w, e)
    /\ UNCHANGED << write_operations, domainRows, dlq, cache, tracked >>
    /\ UNCHANGED << wgVars, ckVars, xtVars >>

\* lines 154-160: INSERT ... ON CONFLICT (operation_id) DO UPDATE SET status,
\* error, completed_at
recordFailure(operationId, table, entityId, error) ==
    IF write_operations[operationId].status = "none"
    THEN [ write_operations EXCEPT ![operationId] =
             [ status |-> "failed", entity_table |-> table, entity_id |-> entityId,
               error |-> error, completed_at |-> "set" ] ]
    ELSE [ write_operations EXCEPT ![operationId].status = "failed",
                                   ![operationId].error = error,
                                   ![operationId].completed_at = "set" ]

\* lines 138-148: recordFailure in its own try/catch, then `throw error`, which
\* handleMessage's catch takes
RecordFailure(w) ==
    /\ handler[w].pc = "recordFailure"
    /\ ~Blocked(w, handler[w].operationId)
    /\ \/ /\ NoRaise
          /\ write_operations' = recordFailure(handler[w].operationId, handler[w].table,
                                               handler[w].entityId, handler[w].err)
       \/ Raise /\ write_operations' = write_operations
    /\ Catch(w, handler[w].err)
    /\ UNCHANGED << domainRows, tx, dlq, cache, tracked >>
    /\ UNCHANGED << wgVars, ckVars, xtVars >>

\* PublishToDlq as it would be if handleMessage swallowed the error of a failed
\* DLQ publish and went on to msg.ack()
PublishToDlqAckAnyway(w) ==
    /\ handler[w].pc = "publishToDlq"
    /\ \/ /\ NoRaise
          /\ dlq' = Append(dlq, [ originalSubject |-> msgs[handler[w].m].table,
                                  operationId |-> handler[w].operationId,
                                  table |-> handler[w].table,
                                  error |-> handler[w].err,
                                  redeliveryCount |-> handler[w].redeliveryCount ])
       \/ /\ Raise
          /\ dlq' = dlq
    /\ handler' = [ handler EXCEPT ![w] = IdleHandler ]
    /\ msgs' = Acked(handler[w].m)
    /\ UNCHANGED << write_operations, domainRows, tx, cache, tracked >>
    /\ UNCHANGED << wgVars, ckVars, xtVars >>

\* lines 78-79 and 189-205: publish to writes-dlq.<table>, await the PubAck,
\* then ack the original.  A failing publish throws out of handleMessage.
PublishToDlq(w) ==
    /\ handler[w].pc = "publishToDlq"
    /\ \/ /\ NoRaise
          /\ dlq' = Append(dlq, [ originalSubject |-> msgs[handler[w].m].table,
                                  operationId |-> handler[w].operationId,
                                  table |-> handler[w].table,
                                  error |-> handler[w].err,
                                  redeliveryCount |-> handler[w].redeliveryCount ])
          /\ handler' = [ handler EXCEPT ![w] = IdleHandler ]
          /\ msgs' = Acked(handler[w].m)
       \/ /\ Raise
          /\ dlq' = dlq
          /\ handler' = [ handler EXCEPT ![w].pc = "crashed" ]
          /\ msgs' = msgs
    /\ UNCHANGED << write_operations, domainRows, tx, cache, tracked >>
    /\ UNCHANGED << wgVars, ckVars, xtVars >>

-----------------------------------------------------------------------------
(* Write gateway: WriteClient *)

\* the HTTP requests that can be inside write() at the same time
Calls == 1..(maxInFlight + ExtraCalls)

\* probe: the call passed the breaker check while the circuit was open
IdleCall == [ pc |-> "idle", probe |-> FALSE ]

\* Admit as it would be without the backpressure check of lines 315-318
AdmitNoCap(c, probe) ==
    /\ calls' = [ calls EXCEPT ![c] = [ pc |-> "publishing", probe |-> probe ] ]
    /\ inFlight' = inFlight + 1

\* Admit as it would be if inFlight++ (line 326) came before the check
AdmitCountsFirst(c, probe) ==
    IF inFlight >= maxInFlight
    THEN /\ calls' = [ calls EXCEPT ![c] = [ pc |-> "Backpressure", probe |-> FALSE ] ]
         /\ inFlight' = inFlight + 1
    ELSE /\ calls' = [ calls EXCEPT ![c] = [ pc |-> "publishing", probe |-> probe ] ]
         /\ inFlight' = inFlight + 1

\* lines 315-326: the backpressure check, then inFlight++ and the publish is
\* started (the await of line 328)
Admit(c, probe) ==
    IF inFlight >= maxInFlight
    THEN /\ calls' = [ calls EXCEPT ![c] = [ pc |-> "Backpressure", probe |-> FALSE ] ]
         /\ inFlight' = inFlight
    ELSE /\ calls' = [ calls EXCEPT ![c] = [ pc |-> "publishing", probe |-> probe ] ]
         /\ inFlight' = inFlight + 1

\* BreakerRejects as it would be without the elapsed-time test of lines 303-306
BreakerRejectsNoWindow ==
    /\ circuitOpen
    /\ halfOpenInProgress

\* BreakerRejects as it would be without the half-open state: an open
\* circuit rejects whatever the time
BreakerRejectsAlways ==
    circuitOpen

\* lines 301-313: the circuit breaker check
BreakerRejects ==
    /\ circuitOpen
    /\ \/ now - circuitOpenedAt < circuitResetMs
       \/ halfOpenInProgress

\* write(), lines 297-328: from the call to the await of js.publish
Write(c) ==
    /\ calls[c].pc = "idle"
    /\ IF BreakerRejects
       THEN /\ calls' = [ calls EXCEPT ![c] = [ pc |-> "CircuitOpen", probe |-> FALSE ] ]
            /\ UNCHANGED << inFlight, halfOpenInProgress >>
       ELSE /\ halfOpenInProgress' = IF circuitOpen THEN TRUE ELSE halfOpenInProgress
            /\ Admit(c, circuitOpen)
    /\ UNCHANGED << consecutiveFailures, circuitOpen, circuitOpenedAt, now, failuresInARow >>
    /\ UNCHANGED << wpVars, ckVars, xtVars >>

\* PublishOk as it would be without the reset of line 338
PublishOkKeepsCount(c) ==
    /\ calls[c].pc = "publishing"
    /\ circuitOpen' = IF circuitOpen THEN FALSE ELSE circuitOpen
    /\ halfOpenInProgress' = IF circuitOpen THEN FALSE ELSE halfOpenInProgress
    /\ consecutiveFailures' = consecutiveFailures
    /\ failuresInARow' = 0
    /\ inFlight' = inFlight - 1
    /\ calls' = [ calls EXCEPT ![c].pc = "accepted" ]
    /\ UNCHANGED << circuitOpenedAt, now >>
    /\ UNCHANGED << wpVars, ckVars, xtVars >>

\* lines 328-340 and 357: the publish is acknowledged
PublishOk(c) ==
    /\ calls[c].pc = "publishing"
    /\ circuitOpen' = IF circuitOpen THEN FALSE ELSE circuitOpen
    /\ halfOpenInProgress' = IF circuitOpen THEN FALSE ELSE halfOpenInProgress
    /\ consecutiveFailures' = 0
    /\ failuresInARow' = 0
    /\ inFlight' = inFlight - 1
    /\ calls' = [ calls EXCEPT ![c].pc = "accepted" ]
    /\ UNCHANGED << circuitOpenedAt, now >>
    /\ UNCHANGED << wpVars, ckVars, xtVars >>

\* PublishFail as it would be if line 349 compared with > instead of >=
PublishFailLate(c) ==
    /\ calls[c].pc = "publishing"
    /\ consecutiveFailures' = consecutiveFailures + 1
    /\ failuresInARow' = failuresInARow + 1
    /\ IF halfOpenInProgress
       THEN /\ circuitOpenedAt' = now
            /\ halfOpenInProgress' = FALSE
            /\ circuitOpen' = circuitOpen
       ELSE IF consecutiveFailures + 1 > circuitFailureThreshold /\ ~circuitOpen
            THEN /\ circuitOpen' = TRUE
                 /\ circuitOpenedAt' = now
                 /\ halfOpenInProgress' = halfOpenInProgress
            ELSE UNCHANGED << circuitOpen, circuitOpenedAt, halfOpenInProgress >>
    /\ inFlight' = inFlight - 1
    /\ calls' = [ calls EXCEPT ![c].pc = "Upstream" ]
    /\ UNCHANGED now
    /\ UNCHANGED << wpVars, ckVars, xtVars >>

\* lines 341-357: the publish is rejected or times out
PublishFail(c) ==
    /\ calls[c].pc = "publishing"
    /\ consecutiveFailures' = consecutiveFailures + 1
    /\ failuresInARow' = failuresInARow + 1
    /\ IF halfOpenInProgress
       THEN /\ circuitOpenedAt' = now
            /\ halfOpenInProgress' = FALSE
            /\ circuitOpen' = circuitOpen
       ELSE IF consecutiveFailures + 1 >= circuitFailureThreshold /\ ~circuitOpen
            THEN /\ circuitOpen' = TRUE
                 /\ circuitOpenedAt' = now
                 /\ halfOpenInProgress' = halfOpenInProgress
            ELSE UNCHANGED << circuitOpen, circuitOpenedAt, halfOpenInProgress >>
    /\ inFlight' = inFlight - 1
    /\ calls' = [ calls EXCEPT ![c].pc = "Upstream" ]
    /\ UNCHANGED now
    /\ UNCHANGED << wpVars, ckVars, xtVars >>

\* the route handler answers (202 or 503) or rethrows the publish error, and
\* the request is over
Respond(c) ==
    /\ calls[c].pc \in { "accepted", "Upstream", "CircuitOpen", "Backpressure" }
    /\ calls' = [ calls EXCEPT ![c] = IdleCall ]
    /\ UNCHANGED << inFlight, consecutiveFailures, circuitOpen, circuitOpenedAt,
                    halfOpenInProgress, now, failuresInARow >>
    /\ UNCHANGED << wpVars, ckVars, xtVars >>

\* Date.now() advances
Tick ==
    /\ now < MaxTime
    /\ now' = now + 1
    /\ UNCHANGED << inFlight, consecutiveFailures, circuitOpen, circuitOpenedAt,
                    halfOpenInProgress, calls, failuresInARow >>
    /\ UNCHANGED << wpVars, ckVars, xtVars >>

-----------------------------------------------------------------------------
(* Write gateway: the routes POST /users and POST /orders, the publish they
   make and the client that called them (the frontend's createUser and
   createOrder).  The admission checks of write() are the subject of the
   actions above; here their outcome is an input of the request. *)

Clients == { "c1", "c2" }
IdempotencyKeys == { "K1", "K2" }
NoKey == ""
NoReply == [ code |-> 0, status |-> "", operationId |-> NoKey, retryAfter |-> "" ]
NewClient == [ pc |-> "idle", key |-> NoKey, table |-> "", reply |-> NoReply,
                 submits |-> 0 ]

\* the WriteRequest of write() lines 320-324, as the stream stores it
WriteRequest(operationId, table) ==
    [ operationId |-> operationId, table |-> table, payload |-> "json",
      delivered |-> 0, avail |-> TRUE, acked |-> FALSE, retried |-> 0 ]

\* js.publish without the msgID option: the stream has nothing to compare
publishNoMsgID(request, msgID) ==
    /\ msgs' = Append(msgs, request)
    /\ dupWindow' = dupWindow

\* js.publish with options { msgID }: the stream stores the message unless
\* it holds one published under the same msgID within the duplicate window
publish(request, msgID) ==
    IF dupWindow[msgID] > 0
    THEN UNCHANGED << msgs, dupWindow >>
    ELSE /\ msgs' = Append(msgs, request)
         /\ dupWindow' = [ dupWindow EXCEPT ![msgID] = Len(msgs) + 1 ]

\* route handler lines 32-40 (62-70): the Idempotency-Key header is checked
\* and write() is called; write() throws BackpressureError or
\* CircuitOpenError (503, lines 42-47), or starts the publish.  The client
\* sends the key it holds: a new one, or the one of the request it retries.
Submit(c, key, table, admitted) ==
    /\ clients[c].pc = "idle"
    /\ clients[c].submits < MaxSubmits
    /\ clients[c].key # NoKey => (key = clients[c].key /\ table = clients[c].table)
    /\ clients' = [ clients EXCEPT ![c] =
          [ pc |-> IF admitted THEN "publishing" ELSE "replied",
            key |-> key, table |-> table,
            reply |-> IF admitted THEN NoReply
                      ELSE [ code |-> 503, status |-> "", operationId |-> NoKey,
                             retryAfter |-> "5" ],
            submits |-> @.submits + 1 ] ]
    /\ UNCHANGED << wpVars, wgVars, ckVars, ctVars, cdcVars, shVars, dupWindow >>

\* write() lines 328-330 and route lines 51-55: the stream acknowledges the
\* publish and the route answers 202
PublishAcked(c) ==
    /\ clients[c].pc = "publishing"
    /\ Len(msgs) < MaxMsgs
    /\ publish(WriteRequest(clients[c].key, clients[c].table), clients[c].key)
    /\ clients' = [ clients EXCEPT ![c].pc = "replied",
                                   ![c].reply = [ code |-> 202, status |-> "queued",
                                                  operationId |-> clients[c].key,
                                                  retryAfter |-> "" ] ]
    /\ UNCHANGED << write_operations, domainRows, tx, dlq, handler, faults, cache, tracked >>
    /\ UNCHANGED << wgVars, ckVars, ctVars, cdcVars, shVars >>

\* write() lines 341-355 and route lines 41-48: the publish fails; the error
\* is neither BackpressureError nor CircuitOpenError, the route rethrows it
\* and the framework answers with its default for an uncaught error, 500
PublishRejected(c) ==
    /\ clients[c].pc = "publishing"
    /\ clients' = [ clients EXCEPT ![c].pc = "replied",
                                   ![c].reply = [ code |-> 500, status |-> "",
                                                  operationId |-> NoKey,
                                                  retryAfter |-> "" ] ]
    /\ UNCHANGED << wpVars, wgVars, ckVars, ctVars, cdcVars, shVars, dupWindow >>

\* createUser lines 80-90 (createOrder 132-142): the client reads the answer
\* and polls the status endpoint only when its status is 'pending';
\* otherwise it reports an error and keeps its key for the retry
ClientReceives(c) ==
    /\ clients[c].pc = "replied"
    /\ clients' = [ clients EXCEPT ![c].pc =
          IF clients[c].reply.status = "pending" THEN "polling" ELSE "idle" ]
    /\ UNCHANGED << wpVars, wgVars, ckVars, ctVars, cdcVars, shVars, dupWindow >>

\* the stream's duplicate window of a msgID runs out
DedupWindowExpires(msgID) ==
    /\ dupWindow[msgID] > 0
    /\ dupWindow' = [ dupWindow EXCEPT ![msgID] = 0 ]
    /\ UNCHANGED << wpVars, wgVars, ckVars, ctVars, cdcVars, shVars, clients >>

-----------------------------------------------------------------------------
(* Cache keystore: the tracked cache of shared cache.ts between its clients.
   The read API puts (getCached, on a miss); the CDC consumer and the write
   processor invalidate.  Every command a client sends to the keystore is a
   step: the keystore runs the commands of its clients one at a time, in the
   order of each client, and the pipeline of setTrackedCache is a batch of
   three commands, not a transaction.  In the write processor's
   specification no other client runs, so InvalidateCache above takes
   invalidateNamespace in one step. *)

Putters == { "readApi" }
Invalidators == { "cdcConsumer", "writeProcessor" }
RedisClients == Putters \cup Invalidators
\* returned: what the client's last invalidateNamespace returned
IdleClient == [ pc |-> "idle", namespace |-> "", keys |-> {}, returned |-> 0 ]

\* setTrackedCache line 31: setex(key, ttlSeconds, value), the first command
\* of the pipeline
PutSetex(c, namespace, key) ==
    /\ redisClient[c].pc = "idle"
    /\ cache' = [ cache EXCEPT ![namespace] = @ \cup { key } ]
    /\ redisClient' = [ redisClient EXCEPT ![c].pc = "sadd",
                                           ![c].namespace = namespace,
                                           ![c].keys = { key } ]
    /\ UNCHANGED << write_operations, domainRows, tx, msgs, dlq, handler, faults, tracked >>
    /\ UNCHANGED << wgVars, xtVars >>

\* setTrackedCache line 32: sadd(setKey, key)
PutSadd(c) ==
    /\ redisClient[c].pc = "sadd"
    /\ tracked' = [ tracked EXCEPT ![redisClient[c].namespace] = @ \cup redisClient[c].keys ]
    /\ redisClient' = [ redisClient EXCEPT ![c].pc = "expire" ]
    /\ UNCHANGED << write_operations, domainRows, tx, msgs, dlq, handler, faults, cache >>
    /\ UNCHANGED << wgVars, xtVars >>

\* setTrackedCache lines 33-34: expire(setKey, setTtl), the last command, and
\* exec() resolves
PutExpire(c) ==
    /\ redisClient[c].pc = "expire"
    /\ redisClient' = [ redisClient EXCEPT ![c].pc = "idle",
                                           ![c].namespace = "",
                                           ![c].keys = {} ]
    /\ UNCHANGED << wpVars, wgVars, xtVars >>

\* invalidateNamespace lines 42-47: the members are read; with none the call
\* returns 0
InvalidateSmembers(c, namespace) ==
    /\ redisClient[c].pc = "idle"
    /\ LET keys == smembers(namespace)
       IN  redisClient' =
             IF keys = {} THEN [ redisClient EXCEPT ![c].returned = 0 ]
             ELSE [ redisClient EXCEPT ![c].pc = "del",
                                       ![c].namespace = namespace,
                                       ![c].keys = keys ]
    /\ UNCHANGED << wpVars, wgVars, xtVars >>

\* what redis.del(...keys, setKey) answers: the number of keys that existed
delCount(keys, namespace) ==
    Cardinality(keys \cap cache[namespace])
        + (IF tracked[namespace] # {} THEN 1 ELSE 0)

\* invalidateNamespace lines 50-51: the keys read and the set are deleted and
\* the call returns deleted - 1
InvalidateDel(c) ==
    /\ redisClient[c].pc = "del"
    /\ del(redisClient[c].keys, redisClient[c].namespace)
    /\ redisClient' = [ redisClient EXCEPT ![c] =
          [ IdleClient EXCEPT !.returned =
              delCount(redisClient[c].keys, redisClient[c].namespace) - 1 ] ]
    /\ UNCHANGED << write_operations, domainRows, tx, msgs, dlq, handler, faults >>
    /\ UNCHANGED << wgVars, xtVars >>

\* a data key reaches its TTL
ExpireKey(namespace, key) ==
    /\ key \in cache[namespace]
    /\ cache' = [ cache EXCEPT ![namespace] = @ \ { key } ]
    /\ UNCHANGED << write_operations, domainRows, tx, msgs, dlq, handler, faults, tracked >>
    /\ UNCHANGED << wgVars, ckVars, xtVars >>

\* the tracking set reaches its TTL: every put gives its key ttlSeconds and
\* the set TRACKING_SET_TTL_MULTIPLIER times as much, so the set outlives the
\* keys it lists
ExpireTrackingSet(namespace) ==
    /\ tracked[namespace] # {}
    /\ cache[namespace] \cap tracked[namespace] = {}
    /\ tracked' = [ tracked EXCEPT ![namespace] = {} ]
    /\ UNCHANGED << write_operations, domainRows, tx, msgs, dlq, handler, faults, cache >>
    /\ UNCHANGED << wgVars, ckVars, xtVars >>

-----------------------------------------------------------------------------
(* Read API: the CDC consumer (consumeCdcEvents).  Debezium writes an event
   to the stream for every committed change of users and orders, whoever
   made it; the consumer takes the events one at a time. *)

CdcOps == { "c", "u", "d", "r" }
IdleCdc == [ pc |-> "idle", ev |-> 0, todo |-> << >>, keys |-> {}, done |-> {} ]

\* namespacesOf as it would be if every event of users invalidated orders too
namespacesOfAlways(table, op) ==
    IF table = "users" THEN << "users", "orders" >>
    ELSE IF table = "orders" THEN << "orders" >> ELSE << >>

\* lines 106-118: the namespaces invalidated for an event, in call order
namespacesOf(table, op) ==
    IF table = "users"
    THEN IF op = "d" THEN << "users", "orders" >> ELSE << "users" >>
    ELSE IF table = "orders" THEN << "orders" >> ELSE << >>

\* a change of the table is committed, or a row is read by the initial
\* snapshot (op r), and Debezium publishes its event on cdc.public.<table>.
\* failures counts the deliveries on which a cache command failed;
\* invalidated is the set of namespaces invalidated by the delivery acked.
ChangeCommitted(table, op) ==
    /\ Len(cdc) < MaxCdcEvents
    /\ cdc' = Append(cdc, [ table |-> table, op |-> op, avail |-> TRUE, acked |-> FALSE,
                            failures |-> 0, invalidated |-> {} ])
    /\ UNCHANGED << wpVars, wgVars, ckVars, ctVars, rtVars, shVars, cdcConsumer >>

\* msg.ack() of line 120 (and 101)
CdcAck(i, namespaces) ==
    /\ cdc' = [ cdc EXCEPT ![i].acked = TRUE, ![i].invalidated = namespaces ]
    /\ cdcConsumer' = IdleCdc

\* CdcNak as it would be if the stream did not redeliver a nak'd event
CdcNakDrops(i) ==
    /\ cdc' = [ cdc EXCEPT ![i].failures = @ + 1 ]
    /\ cdcConsumer' = IdleCdc

\* CdcNak as it would be if the catch acked the event
CdcNakAcks(i) ==
    /\ cdc' = [ cdc EXCEPT ![i].acked = TRUE, ![i].failures = @ + 1 ]
    /\ cdcConsumer' = IdleCdc

\* the catch of lines 121-124: msg.nak(1000)
CdcNak(i) ==
    /\ cdc' = [ cdc EXCEPT ![i].avail = TRUE, ![i].failures = @ + 1 ]
    /\ cdcConsumer' = IdleCdc

\* an invalidateNamespace call of the event has returned: the next call is
\* made, or the event is acked
CdcNamespaceDone ==
    LET done == cdcConsumer.done \cup { Head(cdcConsumer.todo) }
        todo == Tail(cdcConsumer.todo)
    IN  IF todo = << >>
        THEN CdcAck(cdcConsumer.ev, done)
        ELSE /\ cdcConsumer' = [ cdcConsumer EXCEPT !.pc = "smembers", !.todo = todo,
                                                    !.keys = {}, !.done = done ]
             /\ cdc' = cdc

\* lines 90-103: the loop takes the next message, an event or a redelivery;
\* a snapshot read is acked at once
CdcReceive(i) ==
    /\ cdcConsumer.pc = "idle"
    /\ i \in 1..Len(cdc)
    /\ cdc[i].avail /\ ~cdc[i].acked
    /\ IF cdc[i].op = "r"
       THEN /\ cdc' = [ cdc EXCEPT ![i].avail = FALSE, ![i].acked = TRUE ]
            /\ cdcConsumer' = IdleCdc
       ELSE /\ cdc' = [ cdc EXCEPT ![i].avail = FALSE ]
            /\ cdcConsumer' = [ pc |-> "smembers", ev |-> i,
                                todo |-> namespacesOf(cdc[i].table, cdc[i].op),
                                keys |-> {}, done |-> {} ]
    /\ UNCHANGED << wpVars, wgVars, ckVars, ctVars, rtVars, shVars >>

\* invalidateNamespace lines 42-47 called from lines 107, 110, 116: the
\* members are read and with none the call returns; or the command fails
CdcSmembers ==
    /\ cdcConsumer.pc = "smembers"
    /\ \/ LET keys == smembers(Head(cdcConsumer.todo))
          IN  IF keys = {}
              THEN CdcNamespaceDone
              ELSE /\ cdcConsumer' = [ cdcConsumer EXCEPT !.pc = "del", !.keys = keys ]
                   /\ cdc' = cdc
       \/ /\ cdc[cdcConsumer.ev].failures < MaxCdcFailures
          /\ CdcNak(cdcConsumer.ev)
    /\ UNCHANGED << wpVars, wgVars, ckVars, ctVars, rtVars, shVars >>

\* invalidateNamespace lines 50-51: the keys read and the set are deleted;
\* or the command fails
CdcDel ==
    /\ cdcConsumer.pc = "del"
    /\ \/ /\ del(cdcConsumer.keys, Head(cdcConsumer.todo))
          /\ CdcNamespaceDone
       \/ /\ cdc[cdcConsumer.ev].failures < MaxCdcFailures
          /\ CdcNak(cdcConsumer.ev)
          /\ UNCHANGED << cache, tracked >>
    /\ UNCHANGED << write_operations, domainRows, tx, msgs, dlq, handler, faults >>
    /\ UNCHANGED << wgVars, ckVars, ctVars, rtVars, shVars >>

-----------------------------------------------------------------------------
(* Process lifecycle: the shutdown handlers of the write processor
   (write-processor main.ts 64-70), of the read API (part_015 174-181) and
   of the write gateway (write-gateway main.ts 102-107), installed for
   SIGINT and SIGTERM. *)

Processes == { "write-processor", "read-api", "write-gateway" }

\* the awaits of shutdown(), in the order of the code
shutdownSteps(p) ==
    IF p = "write-processor"
    THEN << "nats", "db", "redis" >>           \* nc.close(), db.end(), redis.quit()
    ELSE IF p = "read-api"
    THEN << "http", "nats", "redis", "db" >>   \* fastify.close(), nc.close(), redis.quit(), db.end()
    ELSE << "http", "nats" >>                  \* fastify.close(), writeClient.close()

\* what the process takes its work from: the processor's handlers from
\* their consumers of the stream, the read API from its HTTP server
intake(p) == IF p = "write-processor" THEN "nats" ELSE "http"

\* the closes that wait for work in flight: fastify.close() for the requests
\* being served, db.end() for the pool clients checked out
waitsForWork(p, conn) ==
    \/ conn = "http"
    \/ p = "write-processor" /\ conn = "db"

Running(p) ==
    [ pc |-> 0, open |-> { shutdownSteps(p)[j] : j \in 1..Len(shutdownSteps(p)) },
      busy |-> 0 ]

\* a message is delivered to a handler, or a request reaches the server
StartWork(p) ==
    /\ procs[p].pc <= Len(shutdownSteps(p))
    /\ intake(p) \in procs[p].open
    /\ procs[p].busy < MaxBusy
    /\ procs' = [ procs EXCEPT ![p].busy = @ + 1 ]
    /\ UNCHANGED << wpVars, wgVars, ckVars, ctVars, rtVars, cdcVars >>

\* the handler or the request is done
FinishWork(p) ==
    /\ procs[p].pc <= Len(shutdownSteps(p))
    /\ procs[p].busy > 0
    /\ procs' = [ procs EXCEPT ![p].busy = @ - 1 ]
    /\ UNCHANGED << wpVars, wgVars, ckVars, ctVars, rtVars, cdcVars >>

\* shutdown(): the signal arrives and the first close is made, or the close
\* awaited resolves and the next is made
ShutdownStep(p) ==
    /\ procs[p].pc < Len(shutdownSteps(p))
    /\ LET conn == shutdownSteps(p)[procs[p].pc + 1]
       IN  /\ waitsForWork(p, conn) => procs[p].busy = 0
           /\ procs' = [ procs EXCEPT ![p].pc = @ + 1, ![p].open = @ \ { conn } ]
    /\ UNCHANGED << wpVars, wgVars, ckVars, ctVars, rtVars, cdcVars >>

\* process.exit(0) after the last close
Exit(p) ==
    /\ procs[p].pc = Len(shutdownSteps(p))
    /\ procs' = [ procs EXCEPT ![p].pc = @ + 1, ![p].busy = 0 ]
    /\ UNCHANGED << wpVars, wgVars, ckVars, ctVars, rtVars, cdcVars >>

-----------------------------------------------------------------------------
(* Wire format of a Write Request: the gateway encodes with
   sc.encode(JSON.stringify(request)), the processor decodes with
   JSON.parse(sc.decode(msg.data)).  A JSON text is the sequence of its
   tokens; a string literal is written as its content, a punctuation mark as
   itself.  A value is a record: t is "s" (string, in s), "n" (number, in n),
   "o" (object, m its members << key, value >> in property order) or "a"
   (array, m its elements). *)

Str(s) == [ t |-> "s", s |-> s, n |-> 0, m |-> << >> ]
Num(n) == [ t |-> "n", s |-> "", n |-> n, m |-> << >> ]
Obj(m) == [ t |-> "o", s |-> "", n |-> 0, m |-> m ]
Arr(m) == [ t |-> "a", s |-> "", n |-> 0, m |-> m ]

\* what the request bodies can hold (UserDataSchema, OrderDataSchema): a name
\* with a double quote in it, and one with a character outside ASCII
Names == { "Alice", "Al\"ice", "Zo\\u00EB" }
Emails == { "a@x", "b@y" }
UserIds == { "u1", "u2" }
Quantities == { 1, 2 }
Totals == { 1, 2, 10 }

\* JSON.stringify of a string: the characters that need an escape get one
quote(s) == IF s = "Al\"ice" THEN "Al\\\"ice" ELSE s
\* JSON.parse of a string literal: the escapes are replaced
unquote(tok) == IF tok = "Al\\\"ice" THEN "Al\"ice" ELSE tok

\* the number literals JSON.parse accepts for the numbers of the model, and
\* the one JSON.stringify writes for each
NumberOf == ( "1" :> 1 ) @@ ( "1.0" :> 1 ) @@ ( "2" :> 2 ) @@ ( "2.0" :> 2 )
               @@ ( "10" :> 10 ) @@ ( "1e1" :> 10 )
NumberToString(n) == IF n = 1 THEN "1" ELSE IF n = 2 THEN "2" ELSE "10"

\* sc.encode (TextEncoder): the UTF-8 bytes of a text, token by token; a
\* character outside ASCII becomes its two bytes
utf8(tok) == IF tok = "Zo\\u00EB" THEN "Zo\\xC3\\xAB" ELSE tok
encode(text) == [ i \in 1..Len(text) |-> utf8(text[i]) ]
\* sc.decode (TextDecoder)
fromUtf8(b) == IF b = "Zo\\xC3\\xAB" THEN "Zo\\u00EB" ELSE b
decode(bytes) == [ i \in 1..Len(bytes) |-> fromUtf8(bytes[i]) ]

RECURSIVE JSONstringify(_), stringifyMembers(_), stringifyElements(_)
\* JSON.stringify: no white space, the properties in property order
JSONstringify(v) ==
    IF v.t = "s" THEN << quote(v.s) >>
    ELSE IF v.t = "n" THEN << NumberToString(v.n) >>
    ELSE IF v.t = "o" THEN << "{" >> \o stringifyMembers(v.m) \o << "}" >>
    ELSE << "[" >> \o stringifyElements(v.m) \o << "]" >>
stringifyMembers(m) ==
    IF m = << >> THEN << >>
    ELSE << quote(m[1][1]), ":" >> \o JSONstringify(m[1][2])
            \o (IF Len(m) > 1 THEN << "," >> \o stringifyMembers(Tail(m)) ELSE << >>)
stringifyElements(m) ==
    IF m = << >> THEN << >>
    ELSE JSONstringify(m[1])
            \o (IF Len(m) > 1 THEN << "," >> \o stringifyElements(Tail(m)) ELSE << >>)

\* setMember as it would be if the parser kept the properties newest first
setMemberFront(m, key, value) ==
    << << key, value >> >> \o m

\* a property is defined on the object being parsed: a key seen before keeps
\* its place and takes the new value, a new key goes last
setMember(m, key, value) ==
    IF \E i \in 1..Len(m) : m[i][1] = key
    THEN [ i \in 1..Len(m) |-> IF m[i][1] = key THEN << key, value >> ELSE m[i] ]
    ELSE Append(m, << key, value >>)

RECURSIVE skip(_, _), parseValue(_, _), parseMembers(_, _, _), parseElements(_, _, _)
\* the position of the first token at or after i that is not white space
skip(text, i) == IF text[i] = " " THEN skip(text, i + 1) ELSE i
\* JSON.parse of the value that starts at token i: the value and the position
\* after it
parseValue(text, i) ==
    LET j == skip(text, i) IN
    IF text[j] = "{" THEN parseMembers(text, j + 1, << >>)
    ELSE IF text[j] = "[" THEN parseElements(text, j + 1, << >>)
    ELSE IF text[j] \in DOMAIN NumberOf
         THEN [ val |-> Num(NumberOf[text[j]]), next |-> j + 1 ]
         ELSE [ val |-> Str(unquote(text[j])), next |-> j + 1 ]
parseMembers(text, i, m) ==
    LET j == skip(text, i) IN
    IF text[j] = "}" THEN [ val |-> Obj(m), next |-> j + 1 ]
    ELSE IF text[j] = "," THEN parseMembers(text, j + 1, m)
    ELSE LET colon == skip(text, j + 1)
             r == parseValue(text, colon + 1)
         IN  parseMembers(text, r.next, setMember(m, unquote(text[j]), r.val))
parseElements(text, i, m) ==
    LET j == skip(text, i) IN
    IF text[j] = "]" THEN [ val |-> Arr(m), next |-> j + 1 ]
    ELSE IF text[j] = "," THEN parseElements(text, j + 1, m)
    ELSE LET r == parseValue(text, j) IN parseElements(text, r.next, Append(m, r.val))

JSONparse(text) == parseValue(text, 1).val

\* the request bodies the routes pass on: { name, email } (line 40) and
\* { userId, items, total } (line 70)
UserData ==
    { Obj(<< << "name", Str(name) >>, << "email", Str(email) >> >>) :
        name \in Names, email \in Emails }
OrderData ==
    { Obj(<< << "userId", Str(userId) >>,
             << "items", Arr(<< Obj(<< << "productId", Str("p1") >>,
                                       << "quantity", Num(quantity) >>,
                                       << "price", Num(1) >> >>) >>) >>,
             << "total", Num(total) >> >>) :
        userId \in UserIds, quantity \in Quantities, total \in Totals }
DataOf(table) == IF table = "users" THEN UserData ELSE OrderData

NoValue == Str("")
IdleCodec == [ pc |-> "idle", request |-> NoValue, data |-> << >>,
               decoded |-> NoValue, again |-> << >> ]

\* write() lines 320-330: the request { operationId, table, data } is
\* encoded and published
CodecPublish(operationId, table, data) ==
    /\ codec.pc = "idle"
    /\ LET request == Obj(<< << "operationId", Str(operationId) >>,
                             << "table", Str(table) >>,
                             << "data", data >> >>)
       IN  codec' = [ codec EXCEPT !.pc = "published", !.request = request,
                                   !.data = encode(JSONstringify(request)) ]
    /\ UNCHANGED << wpVars, wgVars, ckVars, rtVars, cdcVars, shVars, ttlVars, rdVars >>

\* handleMessage line 59: the message's bytes are decoded
CodecHandle ==
    /\ codec.pc = "published"
    /\ codec' = [ codec EXCEPT !.pc = "decoded",
                               !.decoded = JSONparse(decode(codec.data)) ]
    /\ UNCHANGED << wpVars, wgVars, ckVars, rtVars, cdcVars, shVars, ttlVars, rdVars >>

\* the decoded request is encoded again, as write() encodes
CodecReencode ==
    /\ codec.pc = "decoded"
    /\ codec' = [ codec EXCEPT !.pc = "reencoded",
                               !.again = encode(JSONstringify(codec.decoded)) ]
    /\ UNCHANGED << wpVars, wgVars, ckVars, rtVars, cdcVars, shVars, ttlVars, rdVars >>

-----------------------------------------------------------------------------
(* Cache keystore with its clock: the TTLs that setTrackedCache sets on a data
   key and on the tracking set of its namespace (one namespace is followed;
   every call uses CACHE_TTL_SECONDS, as getCached does).  The keystore
   removes a key when its time is reached. *)

\* concurrent requests of the read API inside setTrackedCache
PutCalls == { "p1", "p2" }
IdlePut == [ pc |-> "idle", key |-> "" ]
\* the expiry of a key that does not exist / that exists with no TTL
NoKeyYet == 0
NoTtl == -1

\* line 28: const setTtl = ttlSeconds * TRACKING_SET_TTL_MULTIPLIER
setTtl(ttlSeconds) == ttlSeconds * TRACKING_SET_TTL_MULTIPLIER

\* line 31: setex(key, ttlSeconds, value)
TimedSetex(p, key) ==
    /\ ttlPut[p].pc = "idle"
    /\ ttlClock + setTtl(CACHE_TTL_SECONDS) <= MaxClock
    /\ keyExpiry' = [ keyExpiry EXCEPT ![key] = ttlClock + CACHE_TTL_SECONDS ]
    /\ ttlPut' = [ ttlPut EXCEPT ![p] = [ pc |-> "sadd", key |-> key ] ]
    /\ UNCHANGED << ttlClock, setExpiry, setMembers >>
    /\ UNCHANGED << wpVars, wgVars, ckVars, rtVars, cdcVars, shVars, cdVars, rdVars >>

\* line 32: sadd(setKey, key); a set that does not exist is created, with no
\* TTL
TimedSadd(p) ==
    /\ ttlPut[p].pc = "sadd"
    /\ setMembers' = setMembers \cup { ttlPut[p].key }
    /\ setExpiry' = IF setExpiry = NoKeyYet THEN NoTtl ELSE setExpiry
    /\ ttlPut' = [ ttlPut EXCEPT ![p].pc = "expire" ]
    /\ UNCHANGED << ttlClock, keyExpiry >>
    /\ UNCHANGED << wpVars, wgVars, ckVars, rtVars, cdcVars, shVars, cdVars, rdVars >>

\* line 33: expire(setKey, setTtl); on a key that does not exist the command
\* does nothing
TimedExpire(p) ==
    /\ ttlPut[p].pc = "expire"
    /\ setExpiry' = IF setExpiry = NoKeyYet THEN NoKeyYet
                    ELSE ttlClock + setTtl(CACHE_TTL_SECONDS)
    /\ ttlPut' = [ ttlPut EXCEPT ![p] = IdlePut ]
    /\ UNCHANGED << ttlClock, keyExpiry, setMembers >>
    /\ UNCHANGED << wpVars, wgVars, ckVars, rtVars, cdcVars, shVars, cdVars, rdVars >>

\* a second passes: the keystore removes the keys whose time is reached, the
\* tracking set with its members among them
SecondPasses ==
    /\ ttlClock < MaxClock
    /\ ttlClock' = ttlClock + 1
    /\ keyExpiry' = [ k \in CacheKeys |->
                        IF keyExpiry[k] # NoKeyYet /\ keyExpiry[k] <= ttlClock + 1
                        THEN NoKeyYet ELSE keyExpiry[k] ]
    /\ IF setExpiry \notin { NoKeyYet, NoTtl } /\ setExpiry <= ttlClock + 1
       THEN setExpiry' = NoKeyYet /\ setMembers' = {}
       ELSE UNCHANGED << setExpiry, setMembers >>
    /\ UNCHANGED ttlPut
    /\ UNCHANGED << wpVars, wgVars, ckVars, rtVars, cdcVars, shVars, cdVars, rdVars >>

-----------------------------------------------------------------------------
(* Read API: the cache-aside read of getCached against the store and the
   invalidations that follow a commit (one namespace is followed).  The data
   of the table is its version: the number of changes committed to it.  Every
   await of getCached, setTrackedCache and invalidateNamespace is a step. *)

\* concurrent requests of the read API inside getCached
Readers == { "r1", "r2" }
NoData == -1
IdleReader == [ pc |-> "idle", key |-> "", data |-> NoData ]
\* write processor (after its commit) and CDC consumer (on the change event)
NamespaceInvalidators == { "writeProcessor", "cdcConsumer" }
IdleInvalidator == [ pc |-> "idle", keys |-> {}, todo |-> 0 ]

\* getCached line 35: redis.get(key); a hit is returned (36-39), a miss goes
\* on to the fetcher
ReadGet(r, key) ==
    /\ readers[r].pc = "idle"
    /\ readers' = [ readers EXCEPT ![r] =
          IF entries[key] # NoData THEN IdleReader
          ELSE [ pc |-> "fetch", key |-> key, data |-> NoData ] ]
    /\ UNCHANGED << storeVersion, entries, entryKeys, invalidators >>
    /\ UNCHANGED << wpVars, wgVars, ckVars, rtVars, cdcVars, shVars, cdVars, ttlVars >>

\* line 42: const data = await fetcher(), a query on the store
ReadFetch(r) ==
    /\ readers[r].pc = "fetch"
    /\ readers' = [ readers EXCEPT ![r].pc = "setex", ![r].data = storeVersion ]
    /\ UNCHANGED << storeVersion, entries, entryKeys, invalidators >>
    /\ UNCHANGED << wpVars, wgVars, ckVars, rtVars, cdcVars, shVars, cdVars, ttlVars >>

\* line 43 and setTrackedCache line 31: setex(key, ttl, JSON.stringify(data))
ReadSetex(r) ==
    /\ readers[r].pc = "setex"
    /\ entries' = [ entries EXCEPT ![readers[r].key] = readers[r].data ]
    /\ readers' = [ readers EXCEPT ![r].pc = "sadd" ]
    /\ UNCHANGED << storeVersion, entryKeys, invalidators >>
    /\ UNCHANGED << wpVars, wgVars, ckVars, rtVars, cdcVars, shVars, cdVars, ttlVars >>

\* setTrackedCache line 32: sadd(setKey, key)
ReadSadd(r) ==
    /\ readers[r].pc = "sadd"
    /\ entryKeys' = entryKeys \cup { readers[r].key }
    /\ readers' = [ readers EXCEPT ![r].pc = "expire" ]
    /\ UNCHANGED << storeVersion, entries, invalidators >>
    /\ UNCHANGED << wpVars, wgVars, ckVars, rtVars, cdcVars, shVars, cdVars, ttlVars >>

\* setTrackedCache line 33: expire(setKey, setTtl); getCached returns (44)
ReadExpire(r) ==
    /\ readers[r].pc = "expire"
    /\ readers' = [ readers EXCEPT ![r] = IdleReader ]
    /\ UNCHANGED << storeVersion, entries, entryKeys, invalidators >>
    /\ UNCHANGED << wpVars, wgVars, ckVars, rtVars, cdcVars, shVars, cdVars, ttlVars >>

\* the TTL of an entry runs out
EntryExpires(key) ==
    /\ entries[key] # NoData
    /\ entries' = [ entries EXCEPT ![key] = NoData ]
    /\ UNCHANGED << storeVersion, entryKeys, readers, invalidators >>
    /\ UNCHANGED << wpVars, wgVars, ckVars, rtVars, cdcVars, shVars, cdVars, ttlVars >>

\* processWrite line 124: COMMIT of a change to the table.  The processor
\* goes on to invalidate (128-132) before it takes its next message, and the
\* change reaches the CDC consumer as an event.
ChangeCommits ==
    /\ storeVersion < MaxChanges
    /\ invalidators["writeProcessor"] = IdleInvalidator
    /\ storeVersion' = storeVersion + 1
    /\ invalidators' = [ i \in NamespaceInvalidators |->
                           [ invalidators[i] EXCEPT !.todo = @ + 1 ] ]
    /\ UNCHANGED << entries, entryKeys, readers >>
    /\ UNCHANGED << wpVars, wgVars, ckVars, rtVars, cdcVars, shVars, cdVars, ttlVars >>

\* invalidateNamespace lines 43-47: smembers(setKey); an empty set ends the
\* invalidation
NamespaceSmembers(i) ==
    /\ invalidators[i].pc = "idle"
    /\ invalidators[i].todo > 0
    /\ invalidators' = [ invalidators EXCEPT ![i] =
          IF entryKeys = {}
          THEN [ pc |-> "idle", keys |-> {}, todo |-> @.todo - 1 ]
          ELSE [ pc |-> "del", keys |-> entryKeys, todo |-> @.todo ] ]
    /\ UNCHANGED << storeVersion, entries, entryKeys, readers >>
    /\ UNCHANGED << wpVars, wgVars, ckVars, rtVars, cdcVars, shVars, cdVars, ttlVars >>

\* invalidateNamespace line 50: del(...keys, setKey)
NamespaceDel(i) ==
    /\ invalidators[i].pc = "del"
    /\ entries' = [ k \in CacheKeys |->
                      IF k \in invalidators[i].keys THEN NoData ELSE entries[k] ]
    /\ entryKeys' = {}
    /\ invalidators' = [ invalidators EXCEPT ![i] =
          [ pc |-> "idle", keys |-> {}, todo |-> @.todo - 1 ] ]
    /\ UNCHANGED << storeVersion, readers >>
    /\ UNCHANGED << wpVars, wgVars, ckVars, rtVars, cdcVars, shVars, cdVars, ttlVars >>

-----------------------------------------------------------------------------
(* Read API: the status endpoint *)

\* the endpoint as it would be if it sent what the lookup gave, row or not
getStatusRaw(operationId) ==
    [ status |-> write_operations[operationId].status,
      table |-> write_operations[operationId].entity_table,
      entityId |-> write_operations[operationId].entity_id,
      error |-> write_operations[operationId].error ]

\* GET /status/:operationId, lines 119-140: the ledger row is looked up; no
\* row is answered with pending, a row with its status, table and entity
\* id, and its error when it has one
getStatus(operationId) ==
    IF write_operations[operationId].status = "none"
    THEN [ status |-> "pending", table |-> "", entityId |-> NoEntity, error |-> NULL ]
    ELSE [ status |-> write_operations[operationId].status,
           table |-> write_operations[operationId].entity_table,
           entityId |-> write_operations[operationId].entity_id,
           error |-> write_operations[operationId].error ]

-----------------------------------------------------------------------------
(* Initial state and the specifications *)

Init ==
    /\ write_operations = [ op \in Ops |-> NoRow ]
    /\ domainRows = {}
    /\ tx = [ w \in Workers |-> NoTx ]
    /\ msgs = << >>
    /\ dlq = << >>
    /\ handler = [ w \in Workers |-> IdleHandler ]
    /\ faults = 0
    /\ cache = [ t \in Tables |-> CacheKeys ]   \* the read API has cached the pages of each table
    /\ tracked = [ t \in Tables |-> CacheKeys ]
    /\ redisClient = [ c \in RedisClients |-> IdleClient ]
    /\ clients = [ c \in Clients |-> NewClient ]
    /\ dupWindow = [ k \in IdempotencyKeys |-> 0 ]
    /\ cdc = << >>
    /\ cdcConsumer = IdleCdc
    /\ procs = [ p \in Processes |-> Running(p) ]
    /\ codec = IdleCodec
    /\ ttlClock = 0
    /\ keyExpiry = [ k \in CacheKeys |-> NoKeyYet ]
    /\ setExpiry = NoKeyYet
    /\ setMembers = {}
    /\ ttlPut = [ p \in PutCalls |-> IdlePut ]
    /\ storeVersion = 0
    /\ entries = [ k \in CacheKeys |-> NoData ]
    /\ entryKeys = {}
    /\ readers = [ r \in Readers |-> IdleReader ]
    /\ invalidators = [ i \in NamespaceInvalidators |-> IdleInvalidator ]
    /\ inFlight = 0
    /\ consecutiveFailures = 0
    /\ circuitOpen = FALSE
    /\ circuitOpenedAt = 0
    /\ halfOpenInProgress = FALSE
    /\ now = 0
    /\ calls = [ c \in Calls |-> IdleCall ]
    /\ failuresInARow = 0

NextWP ==
    \/ \E op \in Ops : PublishWrite(op, TableOf(op))
    \/ PublishUndecodable("users")
    \/ \E m \in 1..MaxMsgs : AckWaitExpired(m)
    \/ \E w \in Workers, m \in 1..MaxMsgs : Deliver(w, m)
    \/ \E w \in Workers : Connect(w)
    \/ \E w \in Workers : Begin(w)
    \/ \E w \in Workers : InsertPending(w)
    \/ \E w \in Workers : RollbackDup(w)
    \/ \E w \in Workers : InsertDomain(w)
    \/ \E w \in Workers : MarkCompleted(w)
    \/ \E w \in Workers : Commit(w)
    \/ \E w \in Workers : InvalidateCache(w)
    \/ \E w \in Workers : Rollback(w)
    \/ \E w \in Workers : RecordFailure(w)
    \/ \E w \in Workers : PublishToDlq(w)

SpecWP == Init /\ [][NextWP]_vars

\* The write processor from the point where the store has failed the first n
\* attempts of K1 with retryable errors and each was nak'd: the message waits
\* for its next delivery.
InitRetry ==
    /\ write_operations = [ op \in Ops |-> NoRow ]
    /\ domainRows = {}
    /\ tx = [ w \in Workers |-> NoTx ]
    /\ \E n \in 1..MAX_REDELIVERY_COUNT :
          msgs = << [ operationId |-> "K1", table |-> TableOf("K1"), payload |-> "json",
                      delivered |-> n, avail |-> TRUE, acked |-> FALSE,
                      retried |-> n ] >>
    /\ dlq = << >>
    /\ handler = [ w \in Workers |-> IdleHandler ]
    /\ faults = 0
    /\ cache = [ t \in Tables |-> CacheKeys ]
    /\ tracked = [ t \in Tables |-> CacheKeys ]
    /\ redisClient = [ c \in RedisClients |-> IdleClient ]
    /\ clients = [ c \in Clients |-> NewClient ]
    /\ dupWindow = [ k \in IdempotencyKeys |-> 0 ]
    /\ cdc = << >>
    /\ cdcConsumer = IdleCdc
    /\ procs = [ p \in Processes |-> Running(p) ]
    /\ codec = IdleCodec
    /\ ttlClock = 0
    /\ keyExpiry = [ k \in CacheKeys |-> NoKeyYet ]
    /\ setExpiry = NoKeyYet
    /\ setMembers = {}
    /\ ttlPut = [ p \in PutCalls |-> IdlePut ]
    /\ storeVersion = 0
    /\ entries = [ k \in CacheKeys |-> NoData ]
    /\ entryKeys = {}
    /\ readers = [ r \in Readers |-> IdleReader ]
    /\ invalidators = [ i \in NamespaceInvalidators |-> IdleInvalidator ]
    /\ inFlight = 0
    /\ consecutiveFailures = 0
    /\ circuitOpen = FALSE
    /\ circuitOpenedAt = 0
    /\ halfOpenInProgress = FALSE
    /\ now = 0
    /\ calls = [ c \in Calls |-> IdleCall ]
    /\ failuresInARow = 0

SpecRetry == InitRetry /\ [][NextWP]_vars

NextWG ==
    \/ \E c \in Calls : Write(c)
    \/ \E c \in Calls : PublishOk(c)
    \/ \E c \in Calls : PublishFail(c)
    \/ \E c \in Calls : Respond(c)
    \/ Tick

SpecWG == Init /\ [][NextWG]_vars

\* the gateway under the conditions of its liveness: requests keep arriving
\* (the caller of write() is the HTTP server), the clock advances, every
\* publish settles (js.publish resolves or rejects, by timeout at the latest)
\* and every request is answered
SpecWGFair ==
    /\ SpecWG
    /\ WF_vars(Tick)
    /\ \A c \in Calls :
          /\ WF_vars(Write(c))
          /\ WF_vars(PublishOk(c) \/ PublishFail(c))
          /\ WF_vars(Respond(c))

NextCache ==
    \/ \E c \in Putters, t \in Tables, k \in CacheKeys : PutSetex(c, t, k)
    \/ \E c \in Putters : PutSadd(c)
    \/ \E c \in Putters : PutExpire(c)
    \/ \E c \in Invalidators, t \in Tables : InvalidateSmembers(c, t)
    \/ \E c \in Invalidators : InvalidateDel(c)
    \/ \E t \in Tables, k \in CacheKeys : ExpireKey(t, k)
    \/ \E t \in Tables : ExpireTrackingSet(t)

SpecCache == Init /\ [][NextCache]_vars

NextRoute ==
    \/ \E c \in Clients, k \in IdempotencyKeys, t \in Tables, admitted \in BOOLEAN :
          Submit(c, k, t, admitted)
    \/ \E c \in Clients : PublishAcked(c)
    \/ \E c \in Clients : PublishRejected(c)
    \/ \E c \in Clients : ClientReceives(c)
    \/ \E k \in IdempotencyKeys : DedupWindowExpires(k)

SpecRoute == Init /\ [][NextRoute]_vars

NextCDC ==
    \/ \E t \in Tables, op \in CdcOps : ChangeCommitted(t, op)
    \/ \E i \in 1..MaxCdcEvents : CdcReceive(i)
    \/ CdcSmembers
    \/ CdcDel

SpecCDC == Init /\ [][NextCDC]_vars

\* The consumer loop runs as long as its process does, and the stream
\* redelivers a nak'd event: no step of the consumer waits forever.
SpecCDCFair ==
    /\ SpecCDC
    /\ \A i \in 1..MaxCdcEvents : WF_vars(CdcReceive(i))
    /\ WF_vars(CdcSmembers)
    /\ WF_vars(CdcDel)

NextShutdown ==
    \/ \E p \in Processes : StartWork(p)
    \/ \E p \in Processes : FinishWork(p)
    \/ \E p \in Processes : ShutdownStep(p)
    \/ \E p \in Processes : Exit(p)

SpecShutdown == Init /\ [][NextShutdown]_vars

NextCodec ==
    \/ \E operationId \in IdempotencyKeys, table \in Tables :
          \E data \in DataOf(table) : CodecPublish(operationId, table, data)
    \/ CodecHandle
    \/ CodecReencode

SpecCodec == Init /\ [][NextCodec]_vars

NextTtl ==
    \/ \E p \in PutCalls, key \in CacheKeys : TimedSetex(p, key)
    \/ \E p \in PutCalls : TimedSadd(p)
    \/ \E p \in PutCalls : TimedExpire(p)
    \/ SecondPasses

SpecTtl == Init /\ [][NextTtl]_vars

NextReadThrough ==
    \/ \E r \in Readers, key \in CacheKeys : ReadGet(r, key)
    \/ \E r \in Readers : ReadFetch(r)
    \/ \E r \in Readers : ReadSetex(r)
    \/ \E r \in Readers : ReadSadd(r)
    \/ \E r \in Readers : ReadExpire(r)
    \/ \E key \in CacheKeys : EntryExpires(key)
    \/ ChangeCommits
    \/ \E i \in NamespaceInvalidators : NamespaceSmembers(i)
    \/ \E i \in NamespaceInvalidators : NamespaceDel(i)

SpecReadThrough == Init /\ [][NextReadThrough]_vars

Next == NextWP \/ NextWG \/ NextCache \/ NextRoute \/ NextCDC \/ NextShutdown
           \/ NextCodec \/ NextTtl \/ NextReadThrough

Spec == Init /\ [][Next]_vars

-----------------------------------------------------------------------------
(* Properties of the write processor (SpecWP) *)

Terminal == { "completed", "failed" }
RowsOf(op) == { d \in domainRows : d.op = op }
OnDlq(op) == \E i \in 1..Len(dlq) : dlq[i].operationId = op
\* handler w takes a step
Steps(w) == handler'[w] # handler[w]
\* handler w ends the delivery it holds with an ack
AcksNow(w) == /\ handler[w].pc \notin { "idle", "crashed" }
              /\ handler'[w].pc = "idle"
              /\ msgs'[handler[w].m].acked

\* C1: whatever the deliveries of an operation_id (resubmissions, redeliveries
\* after nak or ack-wait expiry, two replicas working on it at once), at most
\* one domain row is ever committed for it.
C1_AtMostOneDomainRow ==
    \A op \in Ops : Cardinality(RowsOf(op)) <= 1

\* C1 witness: the key's row is committed and two messages carrying the key
\* have both been handled to an ack, one of them delivered more than once.
C1_Witness ==
    /\ Len(msgs) >= 2
    /\ \A i \in 1..2 : msgs[i].payload = "json" /\ msgs[i].acked
    /\ \E i \in 1..2 : msgs[i].delivered >= 2
    /\ Cardinality(RowsOf("K1")) = 1

\* C2: once a committed ledger row is completed or failed, no step changes
\* its status.
C2_TerminalStatusIsFinal ==
    [][ \A op \in Ops :
          write_operations[op].status \in Terminal
             => write_operations'[op].status = write_operations[op].status ]_vars

\* C3: in every committed state a completed ledger row has its domain row, a
\* failed one has no domain row with its entity_id, error is set exactly on
\* failed rows, and every domain row has a ledger row.
C3_StatusRowCoupling ==
    /\ \A op \in Ops :
          LET r == write_operations[op] IN
          /\ r.status = "completed" =>
                \E d \in domainRows : d.id = r.entity_id /\ d.table = r.entity_table
          /\ r.status = "failed" => ~ \E d \in domainRows : d.id = r.entity_id
          /\ (r.error # NULL) <=> (r.status = "failed")
    /\ \A d \in domainRows : write_operations[d.op].status # "none"

\* C4: an acked message of the WRITES stream has a terminal ledger row for its
\* operation_id or an entry on the dead-letter stream.
C4_AckedHasOutcome ==
    \A i \in 1..Len(msgs) :
        msgs[i].acked =>
            \/ write_operations[msgs[i].operationId].status \in Terminal
            \/ OnDlq(msgs[i].operationId)

\* C5: a delivery that began when its operation_id already had a committed
\* ledger row changes neither the ledger nor a domain table nor the cache, and
\* when it ends without having met a retryable error it ends with an ack.
C5_DuplicateIsNoOp ==
    [][ \A w \in Workers :
          (handler[w].sawRow /\ Steps(w)) =>
              /\ write_operations' = write_operations
              /\ domainRows' = domainRows
              /\ cache' = cache
              /\ (handler'[w].pc = "idle" /\ ~msgs'[handler[w].m].avail)
                     => AcksNow(w) ]_vars

\* the attempt handler w holds is the last the consumer will deliver
IsLastAttempt(w) == handler[w].redeliveryCount >= MAX_REDELIVERY_COUNT
\* handler w's attempt ends, in this step, in handleMessage's catch with a
\* retryable error
FailsRetryably(w) ==
    /\ handler[w].pc \notin { "idle", "crashed", "publishToDlq" }
    /\ msgs'[handler[w].m].retried = msgs[handler[w].m].retried + 1
    /\ Steps(w)
\* what the claim says a dead letter carries
DeadLetter(w) ==
    [ originalSubject |-> msgs[handler[w].m].table,
      operationId |-> msgs[handler[w].m].operationId,
      table |-> msgs[handler[w].m].table,
      error |-> handler[w].err,
      redeliveryCount |-> msgs[handler[w].m].delivered - 1 ]

\* C12: a retryable failure on the final attempt leads to the DLQ publish and
\* acks nothing yet; the step that settles the DLQ publish either appends the
\* dead letter (original subject, operation id, table, error, redelivery
\* count) and acks the original, or (publish failed) appends nothing and
\* leaves the original unacked.
C12_AckOnlyAfterDlq ==
    [][ \A w \in Workers :
          /\ (FailsRetryably(w) /\ IsLastAttempt(w)) =>
                /\ handler'[w].pc = "publishToDlq"
                /\ isRetryable(handler'[w].err)
                /\ msgs'[handler[w].m].acked = msgs[handler[w].m].acked
                /\ dlq' = dlq
          /\ (handler[w].pc = "publishToDlq" /\ Steps(w)) =>
                \/ /\ dlq' = Append(dlq, DeadLetter(w))
                   /\ msgs' = Acked(handler[w].m)
                \/ /\ dlq' = dlq
                   /\ msgs' = msgs ]_vars

\* C12 witness: a dead letter of a final attempt is on the DLQ and its
\* original, delivered max_deliver times, is acked.
C12_Witness ==
    \E i \in 1..Len(msgs) :
        /\ msgs[i].acked /\ msgs[i].delivered = max_deliver /\ msgs[i].retried >= 1
        /\ \E j \in 1..Len(dlq) :
              /\ dlq[j].operationId = msgs[i].operationId
              /\ dlq[j].redeliveryCount = MAX_REDELIVERY_COUNT

\* the messages that carry operation_id op
MsgsOf(op) == { i \in 1..Len(msgs) : msgs[i].payload = "json" /\ msgs[i].operationId = op }
\* every attempt the consumer makes of message i has ended on a retryable error
AllAttemptsRetried(i) == msgs[i].retried = max_deliver
\* the DLQ publish of message i is still awaited, or it failed
DlqUnsettled(i) ==
    \E w \in Workers : handler[w].m = i /\ handler[w].pc \in { "publishToDlq", "crashed" }
DeadLettersOf(op) == { j \in 1..Len(dlq) : dlq[j].operationId = op }

\* C13: with max_deliver = 3, an attempt that ends on a retryable error is
\* nak'd (not acked, nothing dead-lettered) at redelivery count 0 and 1 and
\* goes to the DLQ publish at count 2; a message all of whose attempts ended
\* that way was attempted exactly max_deliver times, and once its DLQ publish
\* is confirmed it is acked and has exactly one dead letter; if that holds for
\* every message of the operation the ledger has no terminal row for it.
C13_DeadLetterOnThirdAttempt ==
    [][ /\ \A w \in Workers :
              FailsRetryably(w) =>
                  IF handler[w].redeliveryCount < max_deliver - 1
                  THEN /\ msgs'[handler[w].m].avail
                       /\ msgs'[handler[w].m].acked = msgs[handler[w].m].acked
                       /\ dlq' = dlq
                       /\ handler'[w].pc = "idle"
                  ELSE /\ handler[w].redeliveryCount = max_deliver - 1
                       /\ handler'[w].pc = "publishToDlq"
        /\ \A i \in 1..Len(msgs) :
              /\ msgs[i].delivered <= max_deliver
              /\ msgs[i].retried <= msgs[i].delivered
              /\ (AllAttemptsRetried(i) /\ ~DlqUnsettled(i)) =>
                    /\ msgs[i].delivered = max_deliver
                    /\ msgs[i].acked
                    /\ DeadLettersOf(msgs[i].operationId) # {}
        /\ \A op \in Ops :
              /\ Cardinality(DeadLettersOf(op)) <=
                    Cardinality({ i \in MsgsOf(op) : msgs[i].delivered = max_deliver })
              /\ \A j \in DeadLettersOf(op) : dlq[j].redeliveryCount = max_deliver - 1
              /\ (MsgsOf(op) # {} /\ \A i \in MsgsOf(op) : AllAttemptsRetried(i))
                    => write_operations[op].status \notin Terminal ]_vars

\* C13 witness: every attempt of K1's message failed retryably, the message
\* was delivered max_deliver times and is acked, one dead letter is on the
\* DLQ and the ledger has no row for K1.
C13_Witness ==
    /\ MsgsOf("K1") = { 1 }
    /\ AllAttemptsRetried(1) /\ msgs[1].delivered = max_deliver /\ msgs[1].acked
    /\ Cardinality(DeadLettersOf("K1")) = 1
    /\ write_operations["K1"] = NoRow

\* handler w's attempt is in processWrite's catch with a non-retryable error
\* of the transaction
FailedForGood(w) ==
    /\ handler[w].pc \in { "rollback", "recordFailure" }
    /\ ~isRetryable(handler[w].err)

\* C14: when the transaction raised a non-retryable error, the step in which
\* the handler acks leaves the ledger row of the operation failed, with that
\* error and completed_at set, so that the status endpoint returns failed
\* with that error, and leaves no domain row with the attempt's entity id.
C14_FailureRecordedBeforeAck ==
    [][ \A w \in Workers :
          (FailedForGood(w) /\ AcksNow(w)) =>
              /\ write_operations'[handler[w].operationId].status = "failed"
              /\ write_operations'[handler[w].operationId].completed_at # NULL
              /\ getStatus(handler[w].operationId)'.status = "failed"
              /\ getStatus(handler[w].operationId)'.error = handler[w].err
              /\ ~ \E d \in domainRows' : d.id = handler[w].entityId ]_vars

\* handler w's attempt is in a catch block of processWrite with a retryable
\* error of the transaction
RetryableCaught(w) ==
    /\ handler[w].pc \in { "rollback", "rollbackDup" }
    /\ isRetryable(handler[w].err)

\* C15: the step in which a call of the transaction raises a retryable error,
\* and every later step of that attempt, leaves the ledger and the domain
\* tables as they are (no failure row either, final attempt included); when
\* the attempt is not the final one it ends with the message nak'd and not
\* acked.
C15_RetryableLeavesNoTrace ==
    [][ \A w \in Workers :
          /\ (Steps(w) /\ ~RetryableCaught(w) /\ RetryableCaught(w)') =>
                /\ write_operations' = write_operations
                /\ domainRows' = domainRows
          /\ (Steps(w) /\ RetryableCaught(w)) =>
                /\ write_operations' = write_operations
                /\ domainRows' = domainRows
                /\ (handler'[w].pc = "idle" /\ ~IsLastAttempt(w)) =>
                      /\ msgs'[handler[w].m].avail
                      /\ msgs'[handler[w].m].acked = msgs[handler[w].m].acked
          /\ (Steps(w) /\ handler[w].pc = "publishToDlq") =>
                /\ write_operations' = write_operations
                /\ domainRows' = domainRows ]_vars

\* C16: a message whose payload cannot be decoded is acked on its first
\* delivery and is not delivered again.
C16_UndecodableIsAcked ==
    \A i \in 1..Len(msgs) :
        (msgs[i].payload = "garbage" /\ msgs[i].delivered >= 1) =>
            /\ msgs[i].acked
            /\ msgs[i].delivered = 1

\* handler w's delivery ends in this step: handleMessage returns or throws
EndsDelivery(w) == Steps(w) /\ handler'[w].pc \in { "idle", "crashed" }
\* the message of the delivery that handler w ends in this step
Delivered(w) == IF handler[w].pc = "idle" THEN handler'[w].m ELSE handler[w].m

\* C17: the step that ends a delivery gives the message exactly one
\* disposition: an ack (after the dead letter was appended, on the DLQ path)
\* or a nak; handleMessage never ends without one.
C17_OneDisposition ==
    [][ \A w \in Workers :
          EndsDelivery(w) =>
              /\ handler'[w].pc = "idle"
              /\ \/ /\ msgs' = Acked(Delivered(w))
                    /\ handler[w].pc = "publishToDlq" <=> dlq' # dlq
                 \/ /\ msgs' = Retried(Naked(Delivered(w)), Delivered(w))
                    /\ dlq' = dlq ]_vars

\* handler w's db.connect() fails in this step
ConnectFails(w) == handler[w].pc = "connect" /\ Steps(w) /\ handler'[w].pc # "begin"
\* handler w naks its message in this step
NaksNow(w) ==
    /\ handler[w].pc \notin { "idle", "crashed" }
    /\ Steps(w)
    /\ ~msgs[handler[w].m].avail /\ msgs'[handler[w].m].avail

\* C18: a delivery with redelivery count 0 or 1 on which the store is
\* unavailable, be it that no connection can be obtained, is nak'd and not
\* acked; and when the third delivery then commits, the ledger row is
\* completed and the operation has exactly one domain row.
C18_OutageThenSuccess ==
    [][ /\ \A w \in Workers :
              (ConnectFails(w) /\ ~IsLastAttempt(w)) =>
                  /\ msgs'[handler[w].m].avail
                  /\ msgs'[handler[w].m].acked = msgs[handler[w].m].acked
        /\ \A i \in 1..Len(msgs) :
              ( /\ msgs[i].payload = "json" /\ msgs[i].retried = MAX_REDELIVERY_COUNT
                /\ \E d \in domainRows : d.id = randomUUID(i, MAX_REDELIVERY_COUNT) ) =>
                  /\ write_operations[msgs[i].operationId].status = "completed"
                  /\ Cardinality(RowsOf(msgs[i].operationId)) = 1 ]_vars

\* C19: the entity_id of a committed domain row is the one allocated on the
\* first attempt, the delivery with redelivery count 0, of a message carrying
\* its operation_id.
C19_EntityIdStable ==
    \A d \in domainRows : \E i \in MsgsOf(d.op) : d.id = randomUUID(i, 0)

\* the pending row of an attempt exists only in its open transaction
PendingOnlyInTx ==
    /\ \A op \in Ops : write_operations[op].status \in { "none" } \cup Terminal
    /\ \A w \in Workers : tx[w].il.status = "pending" => tx[w].open

C36_RollbackKeepsDisposition ==
    [][ \A w \in Workers :
          (handler[w].pc = "rollback" /\ isRetryable(handler[w].err) /\ Steps(w)) =>
              /\ NaksNow(w) \/ handler'[w].pc = "publishToDlq"
              /\ AcksNow(w) =>
                    \/ write_operations'[handler[w].operationId].status # "none"
                    \/ OnDlq(handler[w].operationId)' ]_vars

\* C37: an error while handling one message (an undecodable payload, a
\* failed DLQ publish on the final attempt) does not end a consume loop: no
\* handler is ever left out of its loop, unable to take the messages that
\* arrive later.
C37_LoopSurvivesErrors ==
    \A w \in Workers : handler[w].pc # "crashed"

\* the error codes the model's calls can throw
ErrorCodes == ConstraintErrors \cup InfraErrors \cup ConnectErrors
                 \cup { PG_UNIQUE_VIOLATION, NoCodeError }

C27_InvalidationNeverFatal ==
    [][ \A w \in Workers :
          /\ (handler[w].pc = "invalidateCache" /\ Steps(w)) =>
                /\ tx[w] = NoTx
                /\ \E d \in domainRows : d.id = handler[w].entityId
                /\ write_operations' = write_operations
                /\ domainRows' = domainRows
                /\ msgs' = Acked(handler[w].m)
                /\ dlq' = dlq
          /\ (Steps(w) /\ cache' # cache) => handler[w].pc = "invalidateCache" ]_vars

\* C27 witness: the one attempt of K1 committed, an error was raised after
\* BEGIN..COMMIT went through, the cache is as it was, and the message is
\* acked with the ledger row completed and the domain row in place.
C27_Witness ==
    /\ Len(msgs) = 1 /\ msgs[1].acked /\ msgs[1].delivered = 1 /\ msgs[1].retried = 0
    /\ faults = 1
    /\ cache = [ t \in Tables |-> CacheKeys ]
    /\ write_operations["K1"].status = "completed"
    /\ RowsOf("K1") # {}
    /\ dlq = << >>

\* C28: the status endpoint answers pending for an operation id with no
\* ledger row, and otherwise the row's status, table and entity id, with an
\* error exactly when the row has one; it answers completed only for an
\* operation whose domain row is committed.
C28_StatusReflectsLedger ==
    \A op \in Ops :
        LET row == write_operations[op]
            r == getStatus(op)
        IN  /\ row = NoRow => r.status = "pending" /\ r.error = NULL
            /\ row # NoRow =>
                  /\ r.status = row.status /\ r.status \in Terminal
                  /\ r.table = row.entity_table
                  /\ r.entityId = row.entity_id
                  /\ (r.error # NULL) <=> (row.error # NULL)
            /\ r.status = "completed" =>
                  \E d \in domainRows : d.op = op /\ d.id = r.entityId

\* C28 witness: K1 is committed and the endpoint answers completed with the
\* entity id of its domain row and no error.
C28_Witness ==
    /\ getStatus("K1").status = "completed"
    /\ getStatus("K1").error = NULL
    /\ \E d \in domainRows : d.id = getStatus("K1").entityId

-----------------------------------------------------------------------------
(* Properties of the gateway's routes (SpecRoute) *)

\* the stream's messages that carry operation id k
StoredUnder(k) == { i \in 1..Len(msgs) : msgs[i].operationId = k }
\* the route answers 202 to client c in this step
Answers202(c) ==
    /\ clients[c].pc = "publishing"
    /\ clients'[c].pc = "replied" /\ clients'[c].reply.code = 202
\* while a msgID is within its duplicate window the stream holds the message
\* published under it and none after it with the same operation id
WindowHoldsOne ==
    \A k \in IdempotencyKeys :
        dupWindow[k] > 0 =>
            /\ dupWindow[k] \in StoredUnder(k)
            /\ \A j \in StoredUnder(k) : j <= dupWindow[k]

\* C21: a request whose publish is acknowledged adds exactly one message,
\* with the request's table as subject and its idempotency key as dedup id
\* and as operation_id of the payload, unless the key was published within
\* the dedup window, and then it adds none; no other step of a request adds
\* a message.
C21_OneMessagePerKey ==
    [][ /\ \A c \in Clients :
              Answers202(c) =>
                  IF dupWindow[clients[c].key] > 0
                  THEN msgs' = msgs
                  ELSE /\ Len(msgs') = Len(msgs) + 1
                       /\ SubSeq(msgs', 1, Len(msgs)) = msgs
                       /\ msgs'[Len(msgs')].operationId = clients[c].key
                       /\ msgs'[Len(msgs')].table = clients[c].table
                       /\ dupWindow'[clients[c].key] = Len(msgs')
        /\ msgs' # msgs => \E c \in Clients : Answers202(c)
        /\ WindowHoldsOne' ]_vars

\* C21 witness: both clients submitted K1 and both got 202, and the stream
\* holds one message of K1.
C21_Witness ==
    /\ \A c \in Clients : clients[c].reply.code = 202 /\ clients[c].reply.operationId = "K1"
    /\ Cardinality(StoredUnder("K1")) = 1

\* C30: the 202 answer carries the supplied idempotency key as operation id
\* and is given only once the stream holds the key's message, and the client
\* that receives it goes on to poll the status endpoint.
C30_AcceptedThenPolled ==
    [][ \A c \in Clients :
          /\ Answers202(c) =>
                /\ clients'[c].reply.operationId = clients[c].key
                /\ StoredUnder(clients[c].key)' # {} 
          /\ ( /\ clients[c].pc = "replied" /\ clients[c].reply.code = 202
               /\ clients'[c] # clients[c] ) =>
                clients'[c].pc = "polling" ]_vars

-----------------------------------------------------------------------------
(* Properties of the cache keystore (SpecCache) *)

\* the keys of namespace t whose put is between its setex and its sadd
BeingPut(t) ==
    UNION { redisClient[c].keys :
              c \in { p \in Putters : redisClient[p].pc = "sadd"
                                       /\ redisClient[p].namespace = t } }

\* C11: whatever the interleaving of the clients' puts and invalidations,
\* every live cache key of a namespace, the keys whose put is still under way
\* aside, is a member of the namespace's tracking set.
C11_LiveKeysAreTracked ==
    \A t \in Tables : (cache[t] \ BeingPut(t)) \subseteq tracked[t]

\* C25: invalidateNamespace deletes the member keys it read and the tracking
\* set, and returns the number of data keys it deleted: 0 when it finds the
\* set empty, never a negative number, keys that had gone before the delete
\* not counted.
C25_ReturnsKeysDeleted ==
    [][ \A c \in Invalidators :
          /\ (redisClient[c].pc = "del" /\ redisClient'[c].pc = "idle") =>
                LET namespace == redisClient[c].namespace
                    keys == redisClient[c].keys
                IN  /\ cache'[namespace] \cap keys = {}
                    /\ tracked'[namespace] = {}
                    /\ redisClient'[c].returned = Cardinality(keys \cap cache[namespace])
                    /\ redisClient'[c].returned >= 0
          /\ ( /\ redisClient[c].pc = "idle" /\ redisClient'[c].pc = "idle"
               /\ redisClient'[c] # redisClient[c] ) =>
                redisClient'[c].returned = 0 ]_vars

\* a client of the keystore has a command executed in this step
Commands(c) == redisClient'[c] # redisClient[c]

\* C26: the three commands of a put take effect as one group: from the
\* setex of a put to its last command no other client has a command
\* executed.
C26_PutIsAtomic ==
    [][ \A p \in Putters :
          redisClient[p].pc \in { "sadd", "expire" } =>
              \A c \in RedisClients \ { p } : ~Commands(c) ]_vars

-----------------------------------------------------------------------------
(* Properties of the CDC consumer (SpecCDC, SpecCDCFair) *)

\* the namespaces the specification names for an event
Required(ev) ==
    IF ev.op = "r" THEN {}
    ELSE IF ev.table = "users"
         THEN IF ev.op = "d" THEN { "users", "orders" } ELSE { "users" }
         ELSE { "orders" }
\* the consumer acks event i in this step
CdcAcks(i) == i <= Len(cdc) /\ ~cdc[i].acked /\ cdc'[i].acked
\* the consumer, holding an event, takes a step
CdcSteps == cdcConsumer.pc # "idle" /\ cdcConsumer' # cdcConsumer

\* C22: every committed change of users or orders, the snapshot reads
\* aside, leads to an invalidation of the table's namespace that the CDC
\* consumer completes after the commit, the event being redelivered until
\* the cache store lets the invalidation through.
C22_EventuallyInvalidated ==
    \A i \in 1..MaxCdcEvents :
        (Len(cdc) >= i /\ cdc[i].op # "r") ~>
            (Len(cdc) >= i /\ cdc[i].table \in cdc[i].invalidated)

\* C22 witness: an insert into orders was committed, its event's first
\* delivery failed on the cache store, and a later one invalidated orders.
C22_Witness ==
    \E i \in 1..Len(cdc) :
        /\ cdc[i].table = "orders" /\ cdc[i].op = "c"
        /\ cdc[i].failures = MaxCdcFailures
        /\ "orders" \in cdc[i].invalidated
        /\ cache["orders"] = {} /\ tracked["orders"] = {}

\* C23: a snapshot read is acked with no invalidation; an event of users is
\* acked with users invalidated and, only when it is a delete, orders too; an
\* event of orders with orders invalidated; and while an event is handled
\* the namespaces it does not require are left as they are.
C23_NamespacesPerEvent ==
    [][ /\ \A i \in 1..MaxCdcEvents :
              CdcAcks(i) => cdc'[i].invalidated = Required(cdc[i])
        /\ \A i \in 1..MaxCdcEvents, t \in Tables :
              ( /\ i <= Len(cdc)
                /\ cdcConsumer' # cdcConsumer
                /\ cdcConsumer.ev = i \/ (cdcConsumer.pc = "idle" /\ cdc'[i] # cdc[i])
                /\ t \notin Required(cdc[i]) ) =>
                  /\ cache'[t] = cache[t]
                  /\ tracked'[t] = tracked[t]
        /\ \A t \in Tables :
              (CdcSteps /\ t \in cdcConsumer'.done \ cdcConsumer.done) =>
                  /\ tracked'[t] = {}
                  /\ cache'[t] \cap tracked[t] = {} ]_vars

\* C23 witness: a delete of a user was handled and acked, users and orders
\* invalidated, and both namespaces are empty.
C23_Witness ==
    \E i \in 1..Len(cdc) :
        /\ cdc[i].table = "users" /\ cdc[i].op = "d" /\ cdc[i].acked
        /\ cdc[i].failures = 0
        /\ cdc[i].invalidated = { "users", "orders" }
        /\ \A t \in Tables : cache[t] = {} /\ tracked[t] = {}

\* C24: the consumer acks an event only when every invalidation the event
\* requires has gone through in this delivery; a delivery on which a command
\* fails ends with the event nak'd and not acked; and a redelivered event is
\* handled from its first invalidation.
C24_AckAfterInvalidation ==
    [][ \A i \in 1..MaxCdcEvents :
          /\ (CdcAcks(i) /\ cdc[i].op # "r") =>
                /\ cdcConsumer.ev = i
                /\ cdcConsumer.done \cup { Head(cdcConsumer.todo) } = Required(cdc[i])
                /\ cdc'[i].failures = cdc[i].failures
          /\ (i <= Len(cdc) /\ cdc'[i].failures # cdc[i].failures) =>
                /\ cdcConsumer.ev = i /\ cdcConsumer'.pc = "idle"
                /\ ~cdc'[i].acked
                /\ cdc'[i].avail
          /\ (CdcSteps /\ cdcConsumer.ev = i /\ cdcConsumer'.pc = "idle") =>
                cdc'[i].acked \/ cdc'[i].failures = cdc[i].failures + 1
          /\ ( /\ i <= Len(cdc) /\ cdc[i].failures > 0
               /\ cdcConsumer.pc = "idle" /\ cdcConsumer'.ev = i ) =>
                /\ cdcConsumer'.done = {}
                /\ { cdcConsumer'.todo[j] : j \in 1..Len(cdcConsumer'.todo) } = Required(cdc[i]) ]_vars

\* C24 witness: the delete of a user failed on a cache command, was nak'd,
\* was redelivered and is acked with both namespaces invalidated.
C24_Witness ==
    \E i \in 1..Len(cdc) :
        /\ cdc[i].table = "users" /\ cdc[i].op = "d" /\ cdc[i].acked
        /\ cdc[i].failures = MaxCdcFailures
        /\ cdc[i].invalidated = { "users", "orders" }

-----------------------------------------------------------------------------
(* Properties of the process lifecycle (SpecShutdown) *)

\* C29: a process that has closed its connection to the durable queue has
\* no work in flight and has closed its other client connections before.
C29_QueueClosedLast ==
    \A p \in Processes :
        "nats" \notin procs[p].open =>
            /\ procs[p].busy = 0
            /\ procs[p].open \cap { "db", "redis" } = {}

\* the publish of request c fails in this step
RoutePublishFails(c) ==
    /\ clients[c].pc = "publishing"
    /\ clients'[c].pc = "replied"
    /\ msgs' = msgs
    /\ clients'[c].reply.code # 202

\* request c is rejected by write() before it publishes, in this step
RouteRejects(c) ==
    /\ clients[c].pc = "idle"
    /\ clients'[c].pc = "replied"

\* C31: a request rejected by the in-flight cap or by the breaker is answered
\* 503 with Retry-After, and a publish that fails is answered 502 (Upstream):
\* no publish failure is answered as an unclassified error.
C31_FailuresAreClassified ==
    [][ \A c \in Clients :
          /\ RouteRejects(c) =>
                /\ clients'[c].reply.code = 503
                /\ clients'[c].reply.retryAfter # ""
          /\ RoutePublishFails(c) => clients'[c].reply.code = 502 ]_vars

-----------------------------------------------------------------------------
(* Properties of the wire format (SpecCodec) *)

-----------------------------------------------------------------------------
(* Properties of the keystore's TTLs (SpecTtl) *)

\* the data keys that exist
LiveKeys == { k \in CacheKeys : keyExpiry[k] # NoKeyYet }
\* the data keys a call of setTrackedCache has set and not finished tracking
MidPut == { ttlPut[p].key : p \in { q \in PutCalls : ttlPut[q].pc # "idle" } }

\* C40: with one TTL for every entry, the tracking set does not expire while
\* a member key is live: outside a call in progress, every live key is a
\* member of the set and the set expires no earlier than the key.
C40_SetOutlivesMembers ==
    \A k \in LiveKeys \ MidPut :
        /\ k \in setMembers
        /\ setExpiry = NoTtl \/ setExpiry >= keyExpiry[k]

-----------------------------------------------------------------------------
(* Properties of the cache-aside read (SpecReadThrough) *)

\* every invalidation that a committed change calls for has completed
InvalidationsCompleted ==
    \A i \in NamespaceInvalidators : invalidators[i] = IdleInvalidator

\* C34: once the last committed change has been followed by the completed
\* invalidations of its namespace, no cache entry holds data that was read
\* from the store before that change.
C34_NoStaleEntryAfterInvalidation ==
    (storeVersion > 0 /\ InvalidationsCompleted) =>
        \A k \in CacheKeys : entries[k] \in { NoData, storeVersion }

-----------------------------------------------------------------------------
(* Properties of the write gateway (SpecWG) *)

\* the publishes that have been started and have not settled
Outstanding == { c \in Calls : calls[c].pc = "publishing" }
\* the outstanding publishes that were let through an open circuit
Probes == { c \in Outstanding : calls[c].probe }
\* write() is called for request c in this step
Arrives(c) == calls[c].pc = "idle" /\ calls'[c].pc # "idle"
PublishSucceeds(c) == calls[c].pc = "publishing" /\ calls'[c].pc = "accepted"
PublishFails(c) == calls[c].pc = "publishing" /\ calls'[c].pc = "Upstream"
WithinResetWindow == circuitOpen /\ now - circuitOpenedAt < circuitResetMs
BreakerState ==
    IF ~circuitOpen THEN "closed"
    ELSE IF halfOpenInProgress THEN "half-open" ELSE "open"

\* the counter part of C6: inFlight counts the outstanding publishes and stays
\* within maxInFlight, before and after every step
InFlightIsOutstanding ==
    /\ inFlight = Cardinality(Outstanding) /\ inFlight <= maxInFlight
    /\ inFlight' = Cardinality(Outstanding') /\ inFlight' <= maxInFlight

\* C6 as stated: inFlight equals the number of outstanding publishes and never
\* exceeds maxInFlight, and a request that arrives while inFlight >= maxInFlight
\* is rejected with Backpressure and publishes nothing.
C6_BackpressureAsStated ==
    [][ /\ InFlightIsOutstanding
        /\ \A c \in Calls :
              (Arrives(c) /\ inFlight >= maxInFlight) =>
                  /\ calls'[c].pc = "Backpressure"
                  /\ Outstanding' = Outstanding ]_vars

\* C6 amended: inFlight equals the number of outstanding publishes and never
\* exceeds maxInFlight, and a request that arrives while inFlight >= maxInFlight
\* publishes nothing and is rejected: with CircuitOpen when the breaker check
\* rejects it first, with Backpressure otherwise.
C6_BackpressureAmended ==
    [][ /\ InFlightIsOutstanding
        /\ \A c \in Calls :
              (Arrives(c) /\ inFlight >= maxInFlight) =>
                  /\ calls'[c].pc = IF BreakerRejects THEN "CircuitOpen"
                                                      ELSE "Backpressure"
                  /\ Outstanding' = Outstanding ]_vars

\* C6 witness: a request has been rejected with Backpressure while maxInFlight
\* publishes are outstanding.
C6_Witness ==
    /\ inFlight = maxInFlight
    /\ Cardinality(Outstanding) = maxInFlight
    /\ \E c \in Calls : calls[c].pc = "Backpressure"

\* C7: at most one publish let through an open circuit is outstanding at any
\* time, and while one is outstanding every arriving request is rejected with
\* CircuitOpen.
C7_SingleProbe ==
    [][ /\ Cardinality(Probes) <= 1
        /\ Cardinality(Probes') <= 1
        /\ \A c \in Calls :
              (Probes # {} /\ Arrives(c)) => calls'[c].pc = "CircuitOpen" ]_vars

\* C8: a request that arrives while the circuit is open and less than
\* circuitResetMs has passed since it opened is rejected with CircuitOpen and
\* nothing is published.
C8_OpenRejects ==
    [][ \A c \in Calls :
          (Arrives(c) /\ WithinResetWindow) =>
              /\ calls'[c].pc = "CircuitOpen"
              /\ Outstanding' = Outstanding
              /\ inFlight' = inFlight ]_vars

\* C8 witness: a request stands rejected with CircuitOpen inside the reset
\* window of an open circuit.
C8_Witness ==
    /\ WithinResetWindow
    /\ \E c \in Calls : calls[c].pc = "CircuitOpen"

\* C9: a closed circuit opens on the publish failure that brings the run of
\* failures since the last success to circuitFailureThreshold, on that failure
\* and on no other step, and every publish success sets the count to 0.
C9_OpensAtThreshold ==
    [][ /\ (~circuitOpen /\ circuitOpen') =>
              /\ \E c \in Calls : PublishFails(c)
              /\ failuresInARow' = circuitFailureThreshold
        /\ ( /\ ~circuitOpen
             /\ \E c \in Calls : PublishFails(c)
             /\ failuresInARow' >= circuitFailureThreshold ) => circuitOpen'
        /\ ~circuitOpen => failuresInARow < circuitFailureThreshold
        /\ (\E c \in Calls : PublishSucceeds(c)) => consecutiveFailures' = 0 ]_vars

\* C9 witness: the circuit stands open with the run of failures exactly at the
\* threshold, after a publish success earlier in the run.
C9_Witness ==
    /\ circuitOpen
    /\ failuresInARow = circuitFailureThreshold
    /\ consecutiveFailures = circuitFailureThreshold
    /\ \E c \in Calls : calls[c].pc = "accepted"

\* C10: the breaker only goes closed -> open (threshold reached), open ->
\* half-open (circuitResetMs elapsed and a request arrives), half-open -> closed
\* (the probe succeeds, count reset) and half-open -> open (the probe fails,
\* circuitOpenedAt reset); in particular an open circuit is closed by nothing
\* but the success of its half-open probe.
C10_BreakerTransitions ==
    [][ LET s == BreakerState
            t == BreakerState'
        IN  \/ s = t
            \/ /\ s = "closed" /\ t = "open"
               /\ consecutiveFailures' >= circuitFailureThreshold
            \/ /\ s = "open" /\ t = "half-open"
               /\ now - circuitOpenedAt >= circuitResetMs
               /\ \E c \in Calls : Arrives(c)
            \/ /\ s = "half-open" /\ t = "closed"
               /\ \E c \in Probes : PublishSucceeds(c)
               /\ consecutiveFailures' = 0
            \/ /\ s = "half-open" /\ t = "open"
               /\ \E c \in Probes : PublishFails(c)
               /\ circuitOpenedAt' = now ]_vars

\* request c is rejected by write() in this step
Rejected(c) == Arrives(c) /\ calls'[c].pc \in { "Backpressure", "CircuitOpen" }

\* C35: a request rejected with Backpressure or CircuitOpen leaves the
\* in-flight count, the consecutive-failure count, the circuit-open flag, the
\* half-open flag and circuitOpenedAt unchanged; so no request sets the
\* half-open flag and is then rejected by the in-flight cap.
C35_RejectionChangesNothing ==
    [][ \A c \in Calls :
          Rejected(c) =>
              UNCHANGED << inFlight, consecutiveFailures, circuitOpen,
                           halfOpenInProgress, circuitOpenedAt >> ]_vars

\* C35 witness: the reset window of an open circuit has passed, a probe is
\* outstanding, one request stands rejected with CircuitOpen and another with
\* Backpressure.
C35_Witness ==
    /\ circuitOpen /\ ~WithinResetWindow
    /\ Probes # {}
    /\ \E c \in Calls : calls[c].pc = "CircuitOpen"
    /\ \E c \in Calls : calls[c].pc = "Backpressure"

\* C38: in every state the circuit is open exactly when consecutiveFailures
\* is at or above circuitFailureThreshold, and halfOpenInProgress is set only
\* while the circuit is open.
C38_OpenIffAtThreshold ==
    /\ circuitOpen <=> consecutiveFailures >= circuitFailureThreshold
    /\ halfOpenInProgress => circuitOpen

\* C38 witness: a half-open probe is outstanding in a circuit that stayed
\* open after an earlier probe failed, the count above the threshold.
C38_Witness ==
    /\ circuitOpen
    /\ halfOpenInProgress
    /\ consecutiveFailures > circuitFailureThreshold
    /\ Probes # {}

\* some publish fails in this step
SomePublishFails == \E c \in Calls : PublishFails(c)

\* the circuit is open and the modelled clock stops before the end of its
\* reset window
ClockRanOut == circuitOpen /\ circuitOpenedAt + circuitResetMs > MaxTime

\* C39: when requests keep arriving and from some point on every publish
\* succeeds, the circuit does not stay open: it is closed again and again
\* (and the breaker check lets requests through) unless publishes keep
\* failing or the modelled clock stops inside the reset window.
C39_EventuallyCloses ==
    \/ []<>(~circuitOpen /\ ~BreakerRejects)
    \/ []<><<SomePublishFails>>_vars
    \/ <>[]ClockRanOut

\* C39 witness: the circuit is closed with the count at 0 and the request that
\* went through as the half-open probe stands accepted.
C39_Witness ==
    /\ ~circuitOpen
    /\ consecutiveFailures = 0
    /\ \E c \in Calls : calls[c].pc = "accepted" /\ calls[c].probe

====
